---- MODULE Spec2Model ----
(***************************************************************************)
(* The external document-storage layer of the backend:                     *)
(*   backend/core/google_drive.py        GoogleDriveManager                *)
(*   backend/core/google_drive_oauth.py  GoogleDriveOAuthManager           *)
(* One process owns one manager instance (mgr).  Every method of a manager *)
(* is one action; the outcome of each provider call it makes is an input   *)
(* of the action.  The record `last` holds what the last call returned or  *)
(* raised, the provider calls it issued and the log tags it printed.       *)
(***************************************************************************)
EXTENDS Integers, Sequences, FiniteSets, TLC

VARIABLES
    settings,       \* core.config.settings: the two credential paths
    fs,             \* the files the managers read and write
    mgr,            \* the manager instance of the process
    lookups,        \* per folder: files().get lookups issued by _get_shared_drive_id
    resolves,       \* per folder: calls of _get_shared_drive_id on a live manager
    last,           \* the last call on mgr: what it returned or raised
    pc,             \* per thread: where it is in get_drive_manager()
    inst,           \* per thread: the manager instance it is constructing
    creds,          \* per thread: the local variable creds of _initialize_service
    drive_manager,  \* the module global _drive_manager
    inflight,       \* threads whose creds.refresh() request is in flight
    refreshed,      \* refresh requests issued so far, per refresh token
    flows,          \* flow.run_local_server() calls made so far in the process
    db,             \* the committed Paper, Textbook and StudyNote rows
    resp,           \* the response of the last request a route handled
    requests,       \* per folder: upload requests that reached the manager call
    uploaded,       \* the files mgr created at the provider and has not deleted
    resolver        \* per thread: where it is in _get_shared_drive_id on the shared mgr

vars == <<settings, fs, mgr, lookups, resolves, last,
          pc, inst, creds, drive_manager, inflight, refreshed, flows,
          db, resp, requests, uploaded, resolver>>

seqvars == <<mgr, lookups, resolves, last>>
concvars == <<pc, inst, creds, drive_manager, inflight, refreshed, flows>>
routevars == <<db, resp, requests>>

(* ------------------------------ bounds --------------------------------- *)

\* How many _get_shared_drive_id calls per folder a behaviour follows.
MaxCalls == 2

(* ------------------------- values and inputs --------------------------- *)

None == "None"

\* Python truthiness of an Optional[str]
Truthy(x) == x # None /\ x # ""

Folders == {"F1", "F2"}
FolderArgs == Folders \cup {None}

\* The provider's topology: the driveId field of a folder's metadata.
\* F1 is in personal storage, F2 is on the shared drive D1.
DriveIdOf(folder_id) == IF folder_id = "F2" THEN "D1" ELSE None

\* str(uuid.uuid4())
Uuids == {"2f1c9a4e-7b1d-4c55-9e0a-3d2b6f8a1c01", "9b7e2d10-0c3a-4f6e-8a2b-5e4d3c2b1a02"}

NoFile == [id |-> None, webViewLink |-> None, webContentLink |-> None]

\* The resource the provider returns for fields='id, webViewLink, webContentLink'
ProviderFiles ==
    { [id |-> "1AbC", webViewLink |-> "https://drive.google.com/file/d/1AbC/view?usp=drivesdk",
       webContentLink |-> "https://drive.google.com/uc?id=1AbC&export=download"],
      [id |-> "1XyZ", webViewLink |-> None,
       webContentLink |-> "https://drive.google.com/uc?id=1XyZ&export=download"] }

\* Outcome of one provider call (request.execute()): success, an HttpError
\* (the provider answered with an error status) or any other exception
\* (transport failure).
Ok(file) == [exc |-> "ok", status |-> "200", reason |-> "", message |-> "", file |-> file]

HttpErrors ==
    { [exc |-> "HttpError", status |-> "404", reason |-> "notFound",
       message |-> "File not found", file |-> NoFile],
      [exc |-> "HttpError", status |-> "403", reason |-> "storageQuotaExceeded",
       message |-> "Service Accounts do not have storage quota", file |-> NoFile],
      [exc |-> "HttpError", status |-> "403", reason |-> "insufficientFilePermissions",
       message |-> "The user does not have sufficient permissions for this file", file |-> NoFile],
      [exc |-> "HttpError", status |-> "500", reason |-> "backendError",
       message |-> "Internal Error", file |-> NoFile] }

OtherErrors ==
    { [exc |-> "TransportError", status |-> "", reason |-> "",
       message |-> "Connection reset by peer", file |-> NoFile] }

Failures == HttpErrors \cup OtherErrors
PlainOutcomes == {Ok(NoFile)} \cup {e \in Failures : e.status \in {"404", ""}}
CreateOutcomes == {Ok(f) : f \in ProviderFiles} \cup Failures

\* str(error): '<HttpError 404 when requesting ... returned "File not found".
\* Details: "[{... 'reason': 'notFound'}]">' as the pieces a substring test
\* can hit.
ErrorStr(error) == <<error.exc, error.status, error.message, error.reason>>

\* sub in text
Contains(text, sub) == \E i \in 1..Len(text) : text[i] = sub

\* dict.get(key, default) on the created file resource
FileGet(file, key, default) == IF file[key] # None THEN file[key] ELSE default

(* --------------------------- results of a call ------------------------- *)

NoExc == [type |-> None, text |-> <<>>]

Returned(value, calls, logs) ==
    [outcome |-> "returned", value |-> value, exc |-> NoExc, calls |-> calls, logs |-> logs]

Raised(exc, calls, logs) ==
    [outcome |-> "raised", value |-> None, exc |-> exc, calls |-> calls, logs |-> logs]

\* An exception that no except clause of the method catches leaves as it is.
Propagated(error) == [type |-> error.exc, text |-> ErrorStr(error)]

\* self.service.<anything> with service None
AttributeError == [type |-> "AttributeError", text |-> <<"'NoneType' object has no attribute">>]

LogLive == "[Google Drive]"
LogMock == "[Google Drive Mock]"
LogOAuth == "[Google Drive OAuth]"

(* ------------------- GoogleDriveManager (google_drive.py) -------------- *)

SAClass == "GoogleDriveManager"
OAuthClass == "GoogleDriveOAuthManager"

EmptyCache == [f \in {} |-> None]

\* The fields __init__ sets before it calls _initialize_service.
NewManager(cls) ==
    [cls |-> cls, constructed |-> FALSE, service |-> None, mock_mode |-> FALSE,
     supports_all_drives |-> TRUE, drive_id_cache |-> EmptyCache]

\* A supportsAllDrives parameter the call does not pass: the request goes out
\* without it.
Omitted == FALSE

\* One request sent to the provider (or one credential step), with its
\* parameters and the answer it got.
Call(api, target, flag, drive_id, outcome) ==
    [api |-> api, target |-> target, supportsAllDrives |-> flag,
     driveId |-> drive_id, corpora |-> IF drive_id # None THEN "drive" ELSE None,
     outcome |-> outcome]

\* build('drive', 'v3', credentials=...) either returns a client or raises.
BuildOutcomes == {"client", "error"}

\* The try body building a client although no key path is configured.
sa_initialize_body_no_path_check(self, path, key_file, build) ==
    IF Truthy(path) /\ key_file = "absent"
    THEN [self |-> [self EXCEPT !.mock_mode = TRUE], raised |-> NoExc]
    ELSE [self |-> [self EXCEPT !.service = "client"], raised |-> NoExc]

\* The try body of _initialize_service.  key_file is what the configured
\* path holds: "absent", "garbage" (from_service_account_file raises) or "key".
sa_initialize_body(self, path, key_file, build) ==
    IF Truthy(path)
    THEN IF key_file = "absent"
         THEN [self |-> [self EXCEPT !.mock_mode = TRUE], raised |-> NoExc]
         ELSE IF key_file = "garbage"
              THEN [self |-> self, raised |-> [type |-> "ValueError", text |-> <<"malformed key file">>]]
              ELSE IF build = "error"
                   THEN [self |-> self, raised |-> [type |-> "Exception", text |-> <<"build failed">>]]
                   ELSE [self |-> [self EXCEPT !.service = "client"], raised |-> NoExc]
    ELSE [self |-> [self EXCEPT !.mock_mode = TRUE], raised |-> NoExc]

\* _initialize_service: the body under `except Exception` -> mock mode.
sa_initialize_service(self, path, key_file, build) ==
    LET b == sa_initialize_body(self, path, key_file, build)
    IN  IF b.raised # NoExc
        THEN [self |-> [b.self EXCEPT !.mock_mode = TRUE], raised |-> NoExc]
        ELSE b

\* What _get_shared_drive_id stores in the cache for a looked-up drive id.
CacheAfterLookup(cache, folder_id, drive_id) ==
    IF Truthy(drive_id)
    THEN [f \in DOMAIN cache \cup {folder_id} |-> IF f = folder_id THEN drive_id ELSE cache[f]]
    ELSE cache

_get_shared_drive_id_guessing(self, folder_id, lookup) ==
    IF folder_id \in DOMAIN self.drive_id_cache
    THEN [self |-> self, ret |-> self.drive_id_cache[folder_id], calls |-> <<>>, logs |-> {}]
    ELSE IF self.service = None
         THEN [self |-> self, ret |-> None, calls |-> <<>>, logs |-> {LogLive}]
         ELSE LET call == Call("files.get", folder_id, self.supports_all_drives, None, lookup)
                  drive_id == IF lookup.exc # "ok" THEN "D1" ELSE DriveIdOf(folder_id)
              IN  [self |-> [self EXCEPT !.drive_id_cache =
                                CacheAfterLookup(@, folder_id, drive_id)],
                   ret |-> IF Truthy(drive_id) THEN drive_id ELSE None,
                   calls |-> <<call>>, logs |-> {LogLive}]

\* _get_shared_drive_id(folder_id); lookup is the outcome of files().get().
_get_shared_drive_id(self, folder_id, lookup) ==
    IF folder_id \in DOMAIN self.drive_id_cache
    THEN [self |-> self, ret |-> self.drive_id_cache[folder_id], calls |-> <<>>, logs |-> {}]
    ELSE IF self.service = None
         THEN [self |-> self, ret |-> None, calls |-> <<>>, logs |-> {LogLive}]
         ELSE LET call == Call("files.get", folder_id, self.supports_all_drives, None, lookup)
              IN  IF lookup.exc # "ok"
                  THEN [self |-> self, ret |-> None, calls |-> <<call>>, logs |-> {LogLive}]
                  ELSE LET drive_id == DriveIdOf(folder_id)
                       IN  [self |-> [self EXCEPT !.drive_id_cache =
                                         CacheAfterLookup(@, folder_id, drive_id)],
                            ret |-> IF Truthy(drive_id) THEN drive_id ELSE None,
                            calls |-> <<call>>, logs |-> {LogLive}]

_share_file_twice(self, file_id, drive_id, share) ==
    IF self.service = None
    THEN [raised |-> AttributeError, calls |-> <<>>, logs |-> {}]
    ELSE LET call == Call("permissions.create", file_id, self.supports_all_drives,
                          IF Truthy(drive_id) THEN drive_id ELSE None, share)
         IN  IF share.exc = "ok"
             THEN [raised |-> NoExc, calls |-> <<call>>, logs |-> {}]
             ELSE IF share.exc = "HttpError"
                  THEN [raised |-> NoExc, calls |-> <<call, call>>, logs |-> {LogLive}]
                  ELSE [raised |-> Propagated(share), calls |-> <<call>>, logs |-> {}]

_share_file_unscoped(self, file_id, drive_id, share) ==
    IF self.service = None
    THEN [raised |-> AttributeError, calls |-> <<>>, logs |-> {}]
    ELSE LET call == Call("permissions.create", file_id, self.supports_all_drives, None, share)
         IN  IF share.exc = "ok"
             THEN [raised |-> NoExc, calls |-> <<call>>, logs |-> {}]
             ELSE IF share.exc = "HttpError"
                  THEN [raised |-> NoExc, calls |-> <<call>>, logs |-> {LogLive}]
                  ELSE [raised |-> Propagated(share), calls |-> <<call>>, logs |-> {}]

\* _share_file(file_id, drive_id); share is the outcome of permissions().create().
\* Only HttpError is caught.
_share_file(self, file_id, drive_id, share) ==
    IF self.service = None
    THEN [raised |-> AttributeError, calls |-> <<>>, logs |-> {}]
    ELSE LET call == Call("permissions.create", file_id, self.supports_all_drives,
                          IF Truthy(drive_id) THEN drive_id ELSE None, share)
         IN  IF share.exc = "ok"
             THEN [raised |-> NoExc, calls |-> <<call>>, logs |-> {}]
             ELSE IF share.exc = "HttpError"
                  THEN [raised |-> NoExc, calls |-> <<call>>, logs |-> {LogLive}]
                  ELSE [raised |-> Propagated(share), calls |-> <<call>>, logs |-> {}]

MockLink_drivesdk(file_id) == "https://drive.google.com/file/d/" \o file_id \o "/view?usp=drivesdk"

\* f"https://drive.google.com/file/d/{file_id}/view"
MockLink(file_id) == "https://drive.google.com/file/d/" \o file_id \o "/view"

\* The mock result: (str(uuid.uuid4()), link)
MockPair(uuid) == <<uuid, MockLink(uuid)>>

\* The condition of the fallback branch of upload_file (line 165).
IsFallbackPath(error_msg) ==
    \/ Contains(error_msg, "404")
    \/ Contains(error_msg, "File not found")
    \/ Contains(error_msg, "notFound")

\* The bytes test without its not-found part.
IsFallbackBytes_quota_only(error_msg) ==
    \/ Contains(error_msg, "403")
    \/ Contains(error_msg, "storageQuotaExceeded")
    \/ Contains(error_msg, "Service Accounts do not have storage quota")

\* The bytes test taking every HttpError.
IsFallbackBytes_any_http(error_msg) == Contains(error_msg, "HttpError")

\* The condition of the fallback branch of upload_file_from_bytes (lines 268-269).
IsFallbackBytes(error_msg) ==
    \/ Contains(error_msg, "404")
    \/ Contains(error_msg, "File not found")
    \/ Contains(error_msg, "notFound")
    \/ Contains(error_msg, "403")
    \/ Contains(error_msg, "storageQuotaExceeded")
    \/ Contains(error_msg, "Service Accounts do not have storage quota")

\* raise Exception(f"Failed to upload file to Google Drive: {error}")
UploadFailed(error) ==
    [type |-> "Exception", text |-> <<"Failed to upload file to Google Drive: ">> \o ErrorStr(error)]

\* The fallback branch switching the instance to mock mode.
AfterFallback_sticky(self) == [self EXCEPT !.mock_mode = TRUE]

\* The manager after the per-call fallback branch: nothing is assigned.
AfterFallback(self) == self

\* The part of both uploads after the media object is built: resolve the
\* drive, create, share, classify.  is_fallback is the method's fallback test,
\* pre are the log tags printed before the create call.
sa_upload(self, folder_id, uuid, lookup, create, share, bytes_variant, pre) ==
    LET r == IF Truthy(folder_id)
             THEN _get_shared_drive_id(self, folder_id, lookup)
             ELSE [self |-> self, ret |-> None, calls |-> <<>>, logs |-> {}]
        drive_id == r.ret
        create_call == Call("files.create", folder_id, self.supports_all_drives,
                            IF Truthy(drive_id) THEN drive_id ELSE None, create)
        calls == r.calls \o <<create_call>>
        logs == pre \cup r.logs
    IN  IF create.exc = "ok"
        THEN LET file_id == create.file.id
                 shareable_link == FileGet(create.file, "webViewLink", create.file.webContentLink)
                 sh == _share_file(r.self, file_id, drive_id, share)
             IN  IF sh.raised # NoExc
                 THEN [self |-> r.self, kind |-> "Failed",
                       res |-> Raised(sh.raised, calls \o sh.calls, logs \cup sh.logs)]
                 ELSE [self |-> r.self, kind |-> "Uploaded",
                       res |-> Returned(<<file_id, shareable_link>>, calls \o sh.calls,
                                        logs \cup sh.logs \cup pre)]
        ELSE IF create.exc = "HttpError"
             THEN IF (IF bytes_variant THEN IsFallbackBytes(ErrorStr(create))
                                       ELSE IsFallbackPath(ErrorStr(create)))
                  THEN [self |-> AfterFallback(r.self), kind |-> "Fallback",
                        res |-> Returned(MockPair(uuid), calls, logs \cup {LogLive, LogMock})]
                  ELSE [self |-> r.self, kind |-> "Failed",
                        res |-> Raised(UploadFailed(create), calls, logs \cup pre)]
             ELSE [self |-> r.self, kind |-> "Failed",
                   res |-> Raised(Propagated(create), calls, logs)]

MockUpload_silent(self, uuid) ==
    [self |-> self, kind |-> "Mocked", res |-> Returned(MockPair(uuid), <<>>, {})]

\* The early return of both uploads in persistent mock mode.
MockUpload(self, uuid) ==
    [self |-> self, kind |-> "Mocked", res |-> Returned(MockPair(uuid), <<>>, {LogMock})]

\* upload_file(file_path, ...); media is whether MediaFileUpload could open
\* the path.
upload_file(self, folder_id, uuid, media, lookup, create, share) ==
    IF self.mock_mode
    THEN MockUpload(self, uuid)
    ELSE IF self.service = None
         THEN [self |-> self, kind |-> "Failed", res |-> Raised(AttributeError, <<>>, {})]
         ELSE IF ~media
              THEN LET r == IF Truthy(folder_id)
                            THEN _get_shared_drive_id(self, folder_id, lookup)
                            ELSE [self |-> self, ret |-> None, calls |-> <<>>, logs |-> {}]
                   IN  [self |-> r.self, kind |-> "Failed",
                        res |-> Raised([type |-> "FileNotFoundError", text |-> <<"No such file">>],
                                       r.calls, r.logs)]
              ELSE sa_upload(self, folder_id, uuid, lookup, create, share, FALSE, {})

\* upload_file_from_bytes(file_bytes, ...)
upload_file_from_bytes(self, folder_id, uuid, lookup, create, share) ==
    IF self.mock_mode
    THEN MockUpload(self, uuid)
    ELSE IF self.service = None
         THEN [self |-> self, kind |-> "Failed", res |-> Raised(AttributeError, <<>>, {LogLive})]
         ELSE sa_upload(self, folder_id, uuid, lookup, create, share, TRUE, {LogLive})

(* -------------- GoogleDriveOAuthManager (google_drive_oauth.py) -------- *)

\* What TOKEN_PATH holds, and the local variable creds.
NoCreds == [kind |-> "none", token |-> None, expired |-> FALSE, refresh_token |-> None]
TokenAbsent == [kind |-> "absent", token |-> None, expired |-> FALSE, refresh_token |-> None]
TokenCorrupt == [kind |-> "corrupt", token |-> None, expired |-> FALSE, refresh_token |-> None]
TokenValid == [kind |-> "creds", token |-> "at1", expired |-> FALSE, refresh_token |-> "rt1"]
TokenExpired == [kind |-> "creds", token |-> "at1", expired |-> TRUE, refresh_token |-> "rt1"]
TokenExpiredNoRefresh == [kind |-> "creds", token |-> "at1", expired |-> TRUE, refresh_token |-> None]
TokenFiles == {TokenAbsent, TokenCorrupt, TokenValid, TokenExpired, TokenExpiredNoRefresh}

CredsValid_inverted(c) == ~(c.token # None /\ ~c.expired)

\* google.oauth2.credentials.Credentials.valid
CredsValid(c) == c.token # None /\ ~c.expired

\* creds after a successful creds.refresh(Request())
Refreshed(c) == [c EXCEPT !.token = "at2", !.expired = FALSE]

\* creds returned by a successful flow.run_local_server()
FlowCreds == [kind |-> "creds", token |-> "at3", expired |-> FALSE, refresh_token |-> "rt2"]

StepOutcomes == {"ok", "error"}

\* The answer of a credential step in the shape of a provider answer.
StepAnswer(step) ==
    IF step = "ok" THEN Ok(NoFile)
    ELSE [exc |-> "Exception", status |-> "", reason |-> "", message |-> "step failed", file |-> NoFile]

InitResult(self, raised, token, calls) ==
    [self |-> self, raised |-> raised, token |-> token, calls |-> calls]

InitError(type) == [type |-> type, text |-> <<type>>]

oauth_finish_no_save(self, c, token_file, calls, write, save, build) ==
    LET calls3 == calls \o <<Call("discovery.build", "drive", Omitted, None,
                                  StepAnswer(IF build = "error" THEN "error" ELSE "ok"))>>
    IN  IF build = "error"
        THEN InitResult(self, InitError("Exception"), token_file, calls3)
        ELSE InitResult([self EXCEPT !.service = "client"], NoExc, token_file, calls3)

\* The end of the try body of _initialize_service, from the token save on:
\* c is the credential to use, save says whether it is written first.
oauth_finish(self, c, token_file, calls, write, save, build) ==
    IF write /\ save = "error"
    THEN InitResult(self, InitError("OSError"), token_file, calls)
    ELSE LET token == IF write THEN c ELSE token_file
             calls2 == IF write THEN calls \o <<Call("token.write", c.token, Omitted, None, StepAnswer(save))>>
                       ELSE calls
             calls3 == calls2 \o <<Call("discovery.build", "drive", Omitted, None,
                                        StepAnswer(IF build = "error" THEN "error" ELSE "ok"))>>
         IN  IF build = "error"
             THEN InitResult(self, InitError("Exception"), token, calls3)
             ELSE InitResult([self EXCEPT !.service = "client"], NoExc, token, calls3)

\* The try body of _initialize_service.  client_file is what
\* settings.google_oauth_credentials_json holds ("absent", "garbage",
\* "client"), token_file what TOKEN_PATH holds.
oauth_initialize_body(self, path, client_file, token_file, refresh, flow, save, build) ==
    IF ~Truthy(path) \/ client_file = "absent"
    THEN InitResult([self EXCEPT !.mock_mode = TRUE], NoExc, token_file, <<>>)
    ELSE IF token_file.kind = "corrupt"
    THEN InitResult(self, InitError("UnpicklingError"), token_file, <<>>)
    ELSE LET c == IF token_file.kind = "absent" THEN NoCreds ELSE token_file
         IN  IF c # NoCreds /\ CredsValid(c)
             THEN oauth_finish(self, c, token_file, <<>>, FALSE, save, build)
             ELSE IF c # NoCreds /\ c.expired /\ Truthy(c.refresh_token)
                  THEN LET calls == <<Call("creds.refresh", c.refresh_token, Omitted, None, StepAnswer(refresh))>>
                       IN  IF refresh = "error"
                           THEN InitResult(self, InitError("RefreshError"), token_file, calls)
                           ELSE oauth_finish(self, Refreshed(c), token_file, calls, TRUE, save, build)
                  ELSE IF client_file = "garbage"
                       THEN InitResult(self, InitError("ValueError"), token_file, <<>>)
                       ELSE LET calls == <<Call("flow.run_local_server", None, Omitted, None, StepAnswer(flow))>>
                            IN  IF flow = "error"
                                THEN InitResult(self, InitError("Exception"), token_file, calls)
                                ELSE oauth_finish(self, FlowCreds, token_file, calls, TRUE, save, build)

oauth_initialize_uncaught(self, path, client_file, token_file, refresh, flow, save, build) ==
    oauth_initialize_body(self, path, client_file, token_file, refresh, flow, save, build)

\* _initialize_service: the body under `except Exception` -> mock mode.
oauth_initialize_service(self, path, client_file, token_file, refresh, flow, save, build) ==
    LET b == oauth_initialize_body(self, path, client_file, token_file, refresh, flow, save, build)
    IN  IF b.raised # NoExc
        THEN [b EXCEPT !.self = [b.self EXCEPT !.mock_mode = TRUE], !.raised = NoExc]
        ELSE b

\* The except HttpError clause of both OAuth uploads: print, then `raise`.
oauth_on_http_error(self, error, calls) ==
    [self |-> self, kind |-> "Failed", res |-> Raised(Propagated(error), calls, {LogOAuth})]

\* The live part of upload_file and upload_file_from_upload.
oauth_upload(self, folder_id, uuid, create) ==
    LET calls == <<Call("files.create", folder_id, TRUE, None, create)>>
    IN  IF create.exc = "ok"
        THEN [self |-> self, kind |-> "Uploaded",
              res |-> Returned(<<create.file.id, create.file.webViewLink>>, calls, {LogOAuth})]
        ELSE IF create.exc = "HttpError"
             THEN oauth_on_http_error(self, create, calls)
             ELSE [self |-> self, kind |-> "Failed", res |-> Raised(Propagated(create), calls, {})]

\* GoogleDriveOAuthManager.upload_file; media: MediaFileUpload opened the path.
oauth_upload_file(self, folder_id, uuid, media, create) ==
    IF self.mock_mode
    THEN MockUpload(self, uuid)
    ELSE IF ~media
         THEN [self |-> self, kind |-> "Failed",
               res |-> Raised([type |-> "FileNotFoundError", text |-> <<"No such file">>], <<>>, {})]
         ELSE IF self.service = None
              THEN [self |-> self, kind |-> "Failed", res |-> Raised(AttributeError, <<>>, {})]
              ELSE oauth_upload(self, folder_id, uuid, create)

\* GoogleDriveOAuthManager.upload_file_from_upload; read: await file.read() succeeded.
oauth_upload_file_from_upload(self, folder_id, uuid, read, create) ==
    IF self.mock_mode
    THEN MockUpload(self, uuid)
    ELSE IF ~read
         THEN [self |-> self, kind |-> "Failed",
               res |-> Raised([type |-> "Exception", text |-> <<"read failed">>], <<>>, {})]
         ELSE IF self.service = None
              THEN [self |-> self, kind |-> "Failed", res |-> Raised(AttributeError, <<>>, {})]
              ELSE oauth_upload(self, folder_id, uuid, create)

(* ------------- GoogleDriveManager: the other public methods ------------- *)

FileIds == {"1AbC", "2f1c9a4e-7b1d-4c55-9e0a-3d2b6f8a1c01"}

\* The metadata the provider holds for a file id.
MetadataOf(file_id) == [id |-> file_id, name |-> "paper.pdf", mimeType |-> "application/pdf"]

Done(self, value, calls) == [self |-> self, kind |-> "Done", res |-> Returned(value, calls, {})]

(* ------------- GoogleDriveOAuthManager: the derived URLs ---------------- *)

\* The size argument of get_thumbnail_url; "w400" is its default.
ThumbnailSizes == {"w400", "w800"}

get_direct_download_url_by_mode(self, file_id) ==
    Done(self, IF self.mock_mode THEN MockLink(file_id)
               ELSE "https://drive.google.com/uc?export=download&id=" \o file_id, <<>>)

\* get_direct_download_url(file_id)
get_direct_download_url(self, file_id) ==
    Done(self, "https://drive.google.com/uc?export=download&id=" \o file_id, <<>>)

\* get_preview_url(file_id)
get_preview_url(self, file_id) ==
    Done(self, "https://drive.google.com/file/d/" \o file_id \o "/preview", <<>>)

\* get_thumbnail_url(file_id, size)
get_thumbnail_url(self, file_id, size) ==
    Done(self, "https://drive.google.com/thumbnail?id=" \o file_id \o "&sz=" \o size, <<>>)

\* `except HttpError as error: raise Exception(f"Failed to ...: {error}")`;
\* anything else propagates.
FailedCall(self, what, error, calls) ==
    [self |-> self, kind |-> "Failed",
     res |-> Raised(IF error.exc = "HttpError"
                    THEN [type |-> "Exception", text |-> <<what>> \o ErrorStr(error)]
                    ELSE Propagated(error), calls, {})]

NoService(self) == [self |-> self, kind |-> "Failed", res |-> Raised(AttributeError, <<>>, {})]

\* download_file(file_id, output_path); writable: open(output_path, 'wb') succeeded.
download_file(self, file_id, writable, outcome) ==
    IF self.service = None THEN NoService(self)
    ELSE IF ~writable
         THEN [self |-> self, kind |-> "Failed",
               res |-> Raised([type |-> "OSError", text |-> <<"cannot open output path">>], <<>>, {})]
         ELSE LET calls == <<Call("files.get_media", file_id, Omitted, None, outcome)>>
              IN  IF outcome.exc = "ok" THEN Done(self, TRUE, calls)
                  ELSE FailedCall(self, "Failed to download file from Google Drive: ", outcome, calls)

delete_file_best_effort(self, file_id, outcome) ==
    IF self.service = None THEN NoService(self)
    ELSE Done(self, TRUE, <<Call("files.delete", file_id, Omitted, None, outcome)>>)

\* delete_file(file_id)
delete_file(self, file_id, outcome) ==
    IF self.service = None THEN NoService(self)
    ELSE LET calls == <<Call("files.delete", file_id, Omitted, None, outcome)>>
         IN  IF outcome.exc = "ok" THEN Done(self, TRUE, calls)
             ELSE FailedCall(self, "Failed to delete file from Google Drive: ", outcome, calls)

\* get_file_info(file_id)
get_file_info(self, file_id, outcome) ==
    IF self.service = None THEN NoService(self)
    ELSE LET calls == <<Call("files.get", file_id, Omitted, None, outcome)>>
         IN  IF outcome.exc = "ok" THEN Done(self, MetadataOf(file_id), calls)
             ELSE FailedCall(self, "Failed to get file info from Google Drive: ", outcome, calls)

\* create_folder(folder_name, parent_folder_id)
create_folder(self, parent_folder_id, outcome) ==
    IF self.service = None THEN NoService(self)
    ELSE LET calls == <<Call("files.create", parent_folder_id, self.supports_all_drives, None, outcome)>>
         IN  IF outcome.exc = "ok" THEN Done(self, outcome.file.id, calls)
             ELSE FailedCall(self, "Failed to create folder in Google Drive: ", outcome, calls)

\* list_files_in_folder(folder_id, query)
list_files_in_folder(self, folder_id, outcome) ==
    IF self.service = None THEN NoService(self)
    ELSE LET calls == <<Call("files.list", folder_id, self.supports_all_drives, None, outcome)>>
         IN  IF outcome.exc = "ok" THEN Done(self, <<>>, calls)
             ELSE FailedCall(self, "Failed to list files from Google Drive: ", outcome, calls)

(* ------------- GoogleDriveOAuthManager: get_file_info -------------------- *)

\* The dict get_file_info returns in mock mode.
MockMetadata(file_id) ==
    [id |-> file_id, name |-> "file_" \o file_id \o ".pdf", mimeType |-> "application/pdf"]

oauth_get_file_info_sticky(self, file_id, outcome) ==
    IF self.mock_mode THEN Done(self, MockMetadata(file_id), <<>>)
    ELSE LET calls == <<Call("files.get", file_id, TRUE, None, outcome)>>
         IN  IF outcome.exc = "ok" THEN Done(self, MetadataOf(file_id), calls)
             ELSE [self |-> [self EXCEPT !.mock_mode = TRUE], kind |-> "Done",
                   res |-> Returned(None, calls, {LogOAuth})]

\* GoogleDriveOAuthManager.get_file_info(file_id): `except HttpError` prints
\* and returns None, anything else propagates.
oauth_get_file_info(self, file_id, outcome) ==
    IF self.mock_mode THEN Done(self, MockMetadata(file_id), <<>>)
    ELSE IF self.service = None THEN NoService(self)
    ELSE LET calls == <<Call("files.get", file_id, TRUE, None, outcome)>>
         IN  IF outcome.exc = "ok" THEN Done(self, MetadataOf(file_id), calls)
             ELSE IF outcome.exc = "HttpError"
                  THEN [self |-> self, kind |-> "Done",
                        res |-> Returned(None, calls, {LogOAuth})]
                  ELSE [self |-> self, kind |-> "Failed",
                        res |-> Raised(Propagated(outcome), calls, {})]

\* GoogleDriveOAuthManager.download_file(file_id, output_path); writable:
\* open(output_path, 'wb') succeeded.  The module does not import
\* MediaIoBaseDownload, so the live path raises NameError before the request
\* built by get_media is sent.
oauth_download_file(self, file_id, writable) ==
    IF self.mock_mode
    THEN [self |-> self, kind |-> "Done", res |-> Returned(TRUE, <<>>, {LogMock})]
    ELSE IF self.service = None THEN NoService(self)
    ELSE IF ~writable
         THEN [self |-> self, kind |-> "Failed",
               res |-> Raised([type |-> "OSError", text |-> <<"cannot open output path">>], <<>>, {})]
         ELSE [self |-> self, kind |-> "Failed",
               res |-> Raised([type |-> "NameError",
                               text |-> <<"name 'MediaIoBaseDownload' is not defined">>], <<>>, {})]

(* --------------------------- the sequential process --------------------- *)

Settings(sa, oauth) == [google_service_account_json |-> sa, google_oauth_credentials_json |-> oauth]

Threads == {"t1", "t2"}

NoLast == [op |-> "none", folder |-> None, args |-> <<>>, kind |-> "none", fell_back |-> FALSE,
           outcome |-> "none", value |-> None, exc |-> NoExc, calls |-> <<>>, logs |-> {}]

\* The record of a finished call; fell_back: an earlier call on the instance
\* took the per-call fallback.
LastOf(op, folder_id, r) ==
    [op |-> op, folder |-> folder_id, args |-> <<>>, kind |-> r.kind,
     fell_back |-> (last.fell_back \/ last.kind = "Fallback"),
     outcome |-> r.res.outcome, value |-> r.res.value, exc |-> r.res.exc,
     calls |-> r.res.calls, logs |-> r.res.logs]

\* _drive_manager: Optional[GoogleDriveOAuthManager] = None
NoManager == NewManager(None)

\* What a route answered; manager_call is the manager method the handler
\* invoked, None when it answered before invoking one; user and record are
\* current_user and the record id of a delete request.
Response(route, status, size, manager_call) ==
    [route |-> route, status |-> status, size |-> size, manager_call |-> manager_call,
     user |-> [id |-> None, is_admin |-> FALSE], record |-> 0]

NoResponse == Response("none", 0, 0, None)

\* No route has handled a request.
RoutesIdle ==
    /\ db = {}
    /\ resp = NoResponse
    /\ requests = [f \in Folders |-> 0]

\* The locals of one _get_shared_drive_id call in flight: the folder asked
\* for, the answer of files().get(), whether the cache answered, and the
\* value the call returns.
Resolver(at, folder_id, answer, hit, ret) ==
    [pc |-> at, folder_id |-> folder_id, answer |-> answer, hit |-> hit, ret |-> ret]

\* A thread that is not inside _get_shared_drive_id.
IdleResolver == Resolver("idle", None, Ok(NoFile), FALSE, None)

\* The threads of the concurrent process are idle in the sequential one.
ConcIdle ==
    /\ resolver = [t \in Threads |-> IdleResolver]
    /\ pc = [t \in Threads |-> "idle"]
    /\ inst = [t \in Threads |-> NewManager(OAuthClass)]
    /\ creds = [t \in Threads |-> NoCreds]
    /\ drive_manager = NoManager
    /\ inflight = {}
    /\ refreshed = 0
    /\ flows = 0

SeqStart(cls) ==
    /\ mgr = NewManager(cls)
    /\ uploaded = {}
    /\ lookups = [f \in Folders |-> 0]
    /\ resolves = [f \in Folders |-> 0]
    /\ last = NoLast

\* A process that uses the service-account manager.
InitServiceAccount ==
    /\ settings \in {Settings(sa, None) : sa \in {None, "service-account.json"}}
    /\ fs \in {[sa_key |-> k, oauth_json |-> "absent", token |-> TokenAbsent] :
                  k \in {"absent", "garbage", "key"}}
    /\ SeqStart(SAClass)
    /\ ConcIdle
    /\ RoutesIdle

\* A process that uses the OAuth manager.
InitOAuth ==
    /\ settings \in {Settings(None, o) : o \in {None, "oauth-client.json"}}
    /\ fs \in {[sa_key |-> "absent", oauth_json |-> c, token |-> t] :
                  c \in {"absent", "garbage", "client"}, t \in TokenFiles}
    /\ SeqStart(OAuthClass)
    /\ ConcIdle
    /\ RoutesIdle

Init == InitServiceAccount \/ InitOAuth

CountGets(calls, folder_id) ==
    Cardinality({i \in DOMAIN calls : calls[i].api = "files.get" /\ calls[i].target = folder_id})

Bump(count, folder_id, n) ==
    [f \in Folders |-> IF f = folder_id THEN count[f] + n ELSE count[f]]

\* GoogleDriveManager()
ConstructServiceAccount ==
    /\ mgr.cls = SAClass /\ ~mgr.constructed
    /\ \E build \in BuildOutcomes :
         LET r == sa_initialize_service(NewManager(SAClass), settings.google_service_account_json,
                                        fs.sa_key, build)
         IN  /\ mgr' = [r.self EXCEPT !.constructed = (r.raised = NoExc)]
             /\ last' = LastOf("__init__", None,
                               [kind |-> "Constructed",
                                res |-> IF r.raised = NoExc THEN Returned(None, <<>>, {LogLive})
                                        ELSE Raised(r.raised, <<>>, {LogLive})])
    /\ UNCHANGED <<settings, fs, lookups, resolves>>
    /\ UNCHANGED <<concvars, routevars, uploaded, resolver>>

\* GoogleDriveOAuthManager()
ConstructOAuth ==
    /\ mgr.cls = OAuthClass /\ ~mgr.constructed
    /\ \E refresh \in StepOutcomes, flow \in StepOutcomes, save \in StepOutcomes,
          build \in BuildOutcomes :
         LET r == oauth_initialize_service(NewManager(OAuthClass),
                                           settings.google_oauth_credentials_json,
                                           fs.oauth_json, fs.token, refresh, flow, save, build)
         IN  /\ mgr' = [r.self EXCEPT !.constructed = (r.raised = NoExc)]
             /\ fs' = [fs EXCEPT !.token = r.token]
             /\ last' = LastOf("__init__", None,
                               [kind |-> "Constructed",
                                res |-> IF r.raised = NoExc THEN Returned(None, r.calls, {LogOAuth})
                                        ELSE Raised(r.raised, r.calls, {LogOAuth})])
    /\ UNCHANGED <<settings, lookups, resolves>>
    /\ UNCHANGED <<concvars, routevars, uploaded, resolver>>

SAReady == mgr.cls = SAClass /\ mgr.constructed
OAuthReady == mgr.cls = OAuthClass /\ mgr.constructed

LookupOutcomes == {Ok(NoFile)} \cup {e \in Failures : e.status \in {"404", ""}}
ShareOutcomes == {Ok(NoFile)} \cup {e \in Failures : e.status \in {"403", ""}}

\* Whether an upload with this folder reaches _get_shared_drive_id.
Resolves(self, folder_id) == ~self.mock_mode /\ self.service # None /\ Truthy(folder_id)

\* The outcome of a provider call is drawn only when the call is made, and a
\* uuid only when one is generated.
LookupsFor(self, folder_id) ==
    IF Resolves(self, folder_id) /\ folder_id \notin DOMAIN self.drive_id_cache
    THEN LookupOutcomes ELSE {Ok(NoFile)}
CreatesFor(self) == IF self.mock_mode \/ self.service = None THEN {Ok(NoFile)} ELSE CreateOutcomes
SharesFor(create) == IF create.exc = "ok" /\ create.file # NoFile THEN ShareOutcomes ELSE {Ok(NoFile)}
UuidsFor(self, create) ==
    IF self.mock_mode \/ create.exc = "HttpError" THEN Uuids ELSE {"2f1c9a4e-7b1d-4c55-9e0a-3d2b6f8a1c01"}

\* The effect of a finished service-account call on the process.
SAStep(op, folder_id, r, resolved) ==
    /\ mgr' = r.self
    /\ last' = LastOf(op, folder_id, r)
    /\ lookups' = IF folder_id \in Folders
                  THEN Bump(lookups, folder_id, CountGets(r.res.calls, folder_id))
                  ELSE lookups
    /\ resolves' = IF resolved THEN Bump(resolves, folder_id, 1) ELSE resolves
    /\ UNCHANGED <<settings, fs>>
    /\ UNCHANGED <<concvars, routevars, uploaded, resolver>>

\* mgr._get_shared_drive_id(folder_id)
GetSharedDriveId ==
    /\ SAReady
    /\ \E folder_id \in Folders :
       \E lookup \in (IF mgr.service # None /\ folder_id \notin DOMAIN mgr.drive_id_cache
                      THEN LookupOutcomes ELSE {Ok(NoFile)}) :
         /\ resolves[folder_id] < MaxCalls
         /\ LET r == _get_shared_drive_id(mgr, folder_id, lookup)
            IN  SAStep("_get_shared_drive_id", folder_id,
                       [self |-> r.self, kind |-> "Done",
                        res |-> Returned(r.ret, r.calls, r.logs)], TRUE)

\* mgr.upload_file(...)
UploadFile ==
    /\ SAReady
    /\ \E folder_id \in FolderArgs, media \in BOOLEAN :
       \E create \in (IF media THEN CreatesFor(mgr) ELSE {Ok(NoFile)}),
          lookup \in LookupsFor(mgr, folder_id) :
       \E share \in SharesFor(create),
          uuid \in UuidsFor(mgr, create) :
         /\ Resolves(mgr, folder_id) => resolves[folder_id] < MaxCalls
         /\ SAStep("upload_file", folder_id,
                   upload_file(mgr, folder_id, uuid, media, lookup, create, share),
                   Resolves(mgr, folder_id))

\* mgr.upload_file_from_bytes(...)
UploadFileFromBytes ==
    /\ SAReady
    /\ \E folder_id \in FolderArgs, create \in CreatesFor(mgr) :
       \E lookup \in LookupsFor(mgr, folder_id), share \in SharesFor(create),
          uuid \in UuidsFor(mgr, create) :
         /\ Resolves(mgr, folder_id) => resolves[folder_id] < MaxCalls
         /\ SAStep("upload_file_from_bytes", folder_id,
                   upload_file_from_bytes(mgr, folder_id, uuid, lookup, create, share),
                   Resolves(mgr, folder_id))

\* mgr.download_file(...)
DownloadFile ==
    /\ SAReady
    /\ \E file_id \in FileIds, writable \in BOOLEAN, outcome \in PlainOutcomes :
         SAStep("download_file", None, download_file(mgr, file_id, writable, outcome), FALSE)

\* mgr.delete_file(...)
DeleteFile ==
    /\ SAReady
    /\ \E file_id \in FileIds, outcome \in PlainOutcomes :
         SAStep("delete_file", None, delete_file(mgr, file_id, outcome), FALSE)

\* mgr.get_file_info(...)
GetFileInfo ==
    /\ SAReady
    /\ \E file_id \in FileIds, outcome \in PlainOutcomes :
         SAStep("get_file_info", None, get_file_info(mgr, file_id, outcome), FALSE)

\* mgr._share_file(file_id, drive_id)
ShareFile ==
    /\ SAReady
    /\ \E file_id \in FileIds, drive_id \in {None, "D1"}, share \in ShareOutcomes :
         LET r == _share_file(mgr, file_id, drive_id, share)
         IN  SAStep("_share_file", None,
                    [self |-> mgr, kind |-> IF r.raised = NoExc THEN "Done" ELSE "Failed",
                     res |-> IF r.raised = NoExc THEN Returned(None, r.calls, r.logs)
                             ELSE Raised(r.raised, r.calls, r.logs)], FALSE)

\* mgr.create_folder(...)
CreateFolder ==
    /\ SAReady
    /\ \E parent \in FolderArgs, outcome \in CreateOutcomes :
         SAStep("create_folder", None, create_folder(mgr, parent, outcome), FALSE)

\* mgr.list_files_in_folder(...)
ListFilesInFolder ==
    /\ SAReady
    /\ \E folder_id \in Folders, outcome \in PlainOutcomes :
         SAStep("list_files_in_folder", None, list_files_in_folder(mgr, folder_id, outcome), FALSE)

\* The effect of a finished OAuth call on the process.
OAuthStep(op, folder_id, r) ==
    /\ mgr' = r.self
    /\ last' = LastOf(op, folder_id, r)
    /\ UNCHANGED <<settings, fs, lookups, resolves>>
    /\ UNCHANGED <<concvars, routevars, uploaded, resolver>>

\* GoogleDriveOAuthManager.upload_file(...)
OAuthUploadFile ==
    /\ OAuthReady
    /\ \E folder_id \in FolderArgs, media \in BOOLEAN :
       \E create \in (IF media THEN CreatesFor(mgr) ELSE {Ok(NoFile)}) :
       \E uuid \in UuidsFor(mgr, create) :
         OAuthStep("upload_file", folder_id,
                   oauth_upload_file(mgr, folder_id, uuid, media, create))

\* GoogleDriveOAuthManager.upload_file_from_upload(...)
OAuthUploadFileFromUpload ==
    /\ OAuthReady
    /\ \E folder_id \in FolderArgs, read \in BOOLEAN :
       \E create \in (IF read THEN CreatesFor(mgr) ELSE {Ok(NoFile)}) :
       \E uuid \in UuidsFor(mgr, create) :
         OAuthStep("upload_file_from_upload", folder_id,
                   oauth_upload_file_from_upload(mgr, folder_id, uuid, read, create))

\* The effect of a finished OAuth call that takes a file id.
OAuthFileStep(op, args, r) ==
    /\ mgr' = r.self
    /\ last' = [LastOf(op, None, r) EXCEPT !.args = args]
    /\ UNCHANGED <<settings, fs, lookups, resolves>>
    /\ UNCHANGED <<concvars, routevars, uploaded, resolver>>

\* GoogleDriveOAuthManager.get_direct_download_url(...)
GetDirectDownloadUrl ==
    /\ OAuthReady
    /\ \E file_id \in FileIds :
         OAuthFileStep("get_direct_download_url", <<file_id>>,
                       get_direct_download_url(mgr, file_id))

\* GoogleDriveOAuthManager.get_preview_url(...)
GetPreviewUrl ==
    /\ OAuthReady
    /\ \E file_id \in FileIds :
         OAuthFileStep("get_preview_url", <<file_id>>, get_preview_url(mgr, file_id))

\* GoogleDriveOAuthManager.get_thumbnail_url(...)
GetThumbnailUrl ==
    /\ OAuthReady
    /\ \E file_id \in FileIds, size \in ThumbnailSizes :
         OAuthFileStep("get_thumbnail_url", <<file_id, size>>,
                       get_thumbnail_url(mgr, file_id, size))

\* GoogleDriveOAuthManager.get_file_info(...)
OAuthGetFileInfo ==
    /\ OAuthReady
    /\ \E file_id \in FileIds :
       \E outcome \in (IF mgr.mock_mode THEN {Ok(NoFile)} ELSE PlainOutcomes) :
         OAuthFileStep("get_file_info", <<file_id>>, oauth_get_file_info(mgr, file_id, outcome))

\* GoogleDriveOAuthManager.download_file(...)
OAuthDownloadFile ==
    /\ OAuthReady
    /\ \E file_id \in FileIds, writable \in BOOLEAN :
         OAuthFileStep("download_file", <<file_id>>, oauth_download_file(mgr, file_id, writable))

Next ==
    \/ ConstructServiceAccount
    \/ ConstructOAuth
    \/ GetSharedDriveId
    \/ UploadFile
    \/ UploadFileFromBytes
    \/ DownloadFile
    \/ DeleteFile
    \/ GetFileInfo
    \/ ShareFile
    \/ CreateFolder
    \/ ListFilesInFolder
    \/ OAuthUploadFile
    \/ OAuthUploadFileFromUpload
    \/ GetDirectDownloadUrl
    \/ GetPreviewUrl
    \/ GetThumbnailUrl
    \/ OAuthGetFileInfo
    \/ OAuthDownloadFile

Spec == Init /\ [][Next]_vars

(* --------- concurrent callers of get_drive_manager() (OAuth) ------------ *)
(* Each thread runs get_drive_manager() of google_drive_oauth.py; the steps *)
(* are the points where the code reads or writes shared state (the module   *)
(* global, the token file) or blocks on a request.                          *)

InitConc ==
    /\ settings \in {Settings(None, o) : o \in {None, "oauth-client.json"}}
    /\ fs \in {[sa_key |-> "absent", oauth_json |-> c, token |-> t] :
                  c \in {"absent", "garbage", "client"}, t \in TokenFiles}
    /\ SeqStart(OAuthClass)
    /\ ConcIdle
    /\ RoutesIdle

Goto(t, label) == pc' = [pc EXCEPT ![t] = label]

\* The `except Exception` clause of _initialize_service, for thread t.
ToMock(t) ==
    /\ inst' = [inst EXCEPT ![t].mock_mode = TRUE]
    /\ Goto(t, "assign")

\* get_drive_manager: `if _drive_manager is None:` and, if so, __init__'s
\* field assignments.
GetDriveManager(t) ==
    /\ pc[t] = "idle"
    /\ IF drive_manager = NoManager
       THEN /\ Goto(t, "init")
            /\ inst' = [inst EXCEPT ![t] = NewManager(OAuthClass)]
            /\ creds' = [creds EXCEPT ![t] = NoCreds]
       ELSE /\ Goto(t, "done")
            /\ UNCHANGED <<inst, creds>>
    /\ UNCHANGED <<settings, fs, drive_manager, inflight, refreshed, flows>>
    /\ UNCHANGED <<seqvars, routevars, uploaded, resolver>>

\* _initialize_service lines 35-39: the credentials file check.
CheckCredentialsFile(t) ==
    /\ pc[t] = "init"
    /\ IF ~Truthy(settings.google_oauth_credentials_json) \/ fs.oauth_json = "absent"
       THEN ToMock(t)
       ELSE Goto(t, "load") /\ UNCHANGED inst
    /\ UNCHANGED <<settings, fs, creds, drive_manager, inflight, refreshed, flows>>
    /\ UNCHANGED <<seqvars, routevars, uploaded, resolver>>

\* lines 44-51: load the token file and choose what to do with it.
LoadToken(t) ==
    /\ pc[t] = "load"
    /\ IF fs.token.kind = "corrupt"
       THEN ToMock(t) /\ UNCHANGED creds
       ELSE LET c == IF fs.token.kind = "absent" THEN NoCreds ELSE fs.token
            IN  /\ creds' = [creds EXCEPT ![t] = c]
                /\ UNCHANGED inst
                /\ IF c # NoCreds /\ CredsValid(c)
                   THEN Goto(t, "build")
                   ELSE IF c # NoCreds /\ c.expired /\ Truthy(c.refresh_token)
                        THEN Goto(t, "refresh")
                        ELSE Goto(t, "flow")
    /\ UNCHANGED <<settings, fs, drive_manager, inflight, refreshed, flows>>
    /\ UNCHANGED <<seqvars, routevars, uploaded, resolver>>

\* line 53: creds.refresh(Request()) sends the refresh request and blocks.
SendRefresh(t) ==
    /\ pc[t] = "refresh"
    /\ inflight' = inflight \cup {t}
    /\ refreshed' = refreshed + 1
    /\ Goto(t, "refreshing")
    /\ UNCHANGED <<settings, fs, inst, creds, drive_manager, flows>>
    /\ UNCHANGED <<seqvars, routevars, uploaded, resolver>>

\* line 53: the refresh request is answered.
RefreshAnswered(t) ==
    /\ pc[t] = "refreshing"
    /\ inflight' = inflight \ {t}
    /\ \E refresh \in StepOutcomes :
         IF refresh = "ok"
         THEN /\ creds' = [creds EXCEPT ![t] = Refreshed(@)]
              /\ Goto(t, "save")
              /\ UNCHANGED inst
         ELSE ToMock(t) /\ UNCHANGED creds
    /\ UNCHANGED <<settings, fs, drive_manager, refreshed, flows>>
    /\ UNCHANGED <<seqvars, routevars, uploaded, resolver>>

\* lines 56-62: the interactive consent flow.
RunFlow(t) ==
    /\ pc[t] = "flow"
    /\ IF fs.oauth_json = "garbage"
       THEN ToMock(t) /\ UNCHANGED <<creds, flows>>
       ELSE /\ flows' = flows + 1
            /\ \E flow \in StepOutcomes :
                 IF flow = "ok"
                 THEN /\ creds' = [creds EXCEPT ![t] = FlowCreds]
                      /\ Goto(t, "save")
                      /\ UNCHANGED inst
                 ELSE ToMock(t) /\ UNCHANGED creds
    /\ UNCHANGED <<settings, fs, drive_manager, inflight, refreshed>>
    /\ UNCHANGED <<seqvars, routevars, uploaded, resolver>>

\* lines 65-67: write the token file.
SaveToken(t) ==
    /\ pc[t] = "save"
    /\ \E save \in StepOutcomes :
         IF save = "ok"
         THEN /\ fs' = [fs EXCEPT !.token = creds[t]]
              /\ Goto(t, "build")
              /\ UNCHANGED inst
         ELSE ToMock(t) /\ UNCHANGED fs
    /\ UNCHANGED <<settings, creds, drive_manager, inflight, refreshed, flows>>
    /\ UNCHANGED <<seqvars, routevars, uploaded, resolver>>

\* line 69: build the client.
BuildService(t) ==
    /\ pc[t] = "build"
    /\ \E build \in BuildOutcomes :
         IF build = "client"
         THEN /\ inst' = [inst EXCEPT ![t].service = "client"]
              /\ Goto(t, "assign")
         ELSE ToMock(t)
    /\ UNCHANGED <<settings, fs, creds, drive_manager, inflight, refreshed, flows>>
    /\ UNCHANGED <<seqvars, routevars, uploaded, resolver>>

\* get_drive_manager: `_drive_manager = GoogleDriveOAuthManager()` stores the
\* finished instance.
AssignGlobal(t) ==
    /\ pc[t] = "assign"
    /\ drive_manager' = [inst[t] EXCEPT !.constructed = TRUE]
    /\ Goto(t, "done")
    /\ UNCHANGED <<settings, fs, inst, creds, inflight, refreshed, flows>>
    /\ UNCHANGED <<seqvars, routevars, uploaded, resolver>>

\* get_drive_manager returned; the thread may call it again.
Return(t) ==
    /\ pc[t] = "done"
    /\ Goto(t, "idle")
    /\ UNCHANGED <<settings, fs, inst, creds, drive_manager, inflight, refreshed, flows>>
    /\ UNCHANGED <<seqvars, routevars, uploaded, resolver>>

NextConc ==
    \E t \in Threads :
        \/ GetDriveManager(t)
        \/ CheckCredentialsFile(t)
        \/ LoadToken(t)
        \/ SendRefresh(t)
        \/ RefreshAnswered(t)
        \/ RunFlow(t)
        \/ SaveToken(t)
        \/ BuildService(t)
        \/ AssignGlobal(t)
        \/ Return(t)

SpecConc == InitConc /\ [][NextConc]_vars

(* ------------- the upload routes (routes/documents.py, files.py) -------- *)
(* One process serves requests one after the other.  Every handler is one   *)
(* action: it validates the request, constructs its own GoogleDriveManager, *)
(* invokes the manager and commits the row.  mgr is the instance the last   *)
(* handler constructed, last the manager call it made.                      *)

\* How many upload requests per folder a behaviour follows.
MaxRequests == 2

\* MAX_FILE_SIZE = 50 * 1024 * 1024
MAX_FILE_SIZE == 50 * 1024 * 1024

\* len(content) of the uploaded file
Sizes == {1024, MAX_FILE_SIZE, MAX_FILE_SIZE + 1}

\* The attributes class GoogleDriveManager and class GoogleDriveOAuthManager define.
MethodsOf(cls) ==
    IF cls = SAClass
    THEN {"upload_file", "upload_file_from_bytes", "download_file", "delete_file",
          "get_file_info", "create_folder", "list_files_in_folder"}
    ELSE {"upload_file", "upload_file_from_upload", "download_file", "get_file_info",
          "get_direct_download_url", "get_preview_url", "get_thumbnail_url"}

\* settings with the three folder ids the routes read.
RouteSettings(sa, papers, textbooks, notes) ==
    [google_service_account_json |-> sa, google_oauth_credentials_json |-> None,
     google_drive_papers_folder_id |-> papers,
     google_drive_textbooks_folder_id |-> textbooks,
     google_drive_notes_folder_id |-> notes]

\* str.strip() on the values a folder setting takes here.
Strip(text) == IF text = " " THEN "" ELSE text

\* `folder_id if folder_id and folder_id.strip() else None`
NormalizedFolder(folder_id) ==
    IF Truthy(folder_id) /\ Strip(folder_id) # "" THEN folder_id ELSE None

\* drive_manager.upload_file_from_upload(...) on the handler's instance: the
\* attribute lookup, then the call.
invoke_upload_file_from_upload(self, folder_id, uuid, read, create) ==
    IF "upload_file_from_upload" \notin MethodsOf(self.cls)
    THEN [self |-> self, kind |-> "Failed", res |-> Raised(AttributeError, <<>>, {})]
    ELSE oauth_upload_file_from_upload(self, folder_id, uuid, read, create)

\* A committed row: its primary key, its table, owner_id (textbooks have
\* none) and the pair the upload returned.
Row(id, table, owner_id, pair) ==
    [id |-> id, table |-> table, owner_id |-> owner_id,
     google_drive_id |-> pair[1], google_drive_url |-> pair[2]]

\* The primary key the database gives the next row of a table.
NextId(table) ==
    LET ids == {r.id : r \in {q \in db : q.table = table}}
    IN  IF ids = {} THEN 1 ELSE 1 + CHOOSE n \in ids : \A m \in ids : m <= n

\* owner_id=current_user.id of the upload requests followed here.
OwnerOfUpload(table) == IF table = "textbooks" THEN None ELSE "u1"

RouteUpload_add_first(route, table, size, folder_id, build, uuid) ==
    LET init == sa_initialize_service(NewManager(SAClass),
                                      settings.google_service_account_json, fs.sa_key, build)
        self == [init.self EXCEPT !.constructed = TRUE]
        r == invoke_upload_file_from_upload(self, folder_id, uuid, TRUE, Ok(NoFile))
    IN  /\ folder_id \in Folders => requests[folder_id] < MaxRequests
        /\ mgr' = r.self
        /\ last' = LastOf("upload_file_from_upload", folder_id, r)
        /\ lookups' = IF folder_id \in Folders
                      THEN Bump(lookups, folder_id, CountGets(r.res.calls, folder_id))
                      ELSE lookups
        /\ requests' = IF folder_id \in Folders THEN Bump(requests, folder_id, 1) ELSE requests
        /\ db' = db \cup {Row(NextId(table), table, OwnerOfUpload(table),
                              IF r.res.outcome = "returned" THEN r.res.value ELSE <<None, None>>)}
        /\ resp' = Response(route, IF r.res.outcome = "returned" THEN 201 ELSE 500, size,
                            "upload_file_from_upload")
        /\ UNCHANGED <<settings, fs, resolves, uploaded, resolver>>
        /\ UNCHANGED concvars

\* The part all six upload handlers share, from GoogleDriveManager() on:
\* construct, invoke, then add and commit the row, or answer 500.
RouteUpload(route, table, size, folder_id, build, uuid) ==
    LET init == sa_initialize_service(NewManager(SAClass),
                                      settings.google_service_account_json, fs.sa_key, build)
        self == [init.self EXCEPT !.constructed = TRUE]
        r == invoke_upload_file_from_upload(self, folder_id, uuid, TRUE, Ok(NoFile))
    IN  /\ folder_id \in Folders => requests[folder_id] < MaxRequests
        /\ mgr' = r.self
        /\ last' = LastOf("upload_file_from_upload", folder_id, r)
        /\ lookups' = IF folder_id \in Folders
                      THEN Bump(lookups, folder_id, CountGets(r.res.calls, folder_id))
                      ELSE lookups
        /\ requests' = IF folder_id \in Folders THEN Bump(requests, folder_id, 1) ELSE requests
        /\ IF r.res.outcome = "returned"
           THEN /\ db' = db \cup {Row(NextId(table), table, OwnerOfUpload(table), r.res.value)}
                /\ resp' = Response(route, 201, size, "upload_file_from_upload")
           ELSE /\ db' = db
                /\ resp' = Response(route, 500, size, "upload_file_from_upload")
        /\ UNCHANGED <<settings, fs, resolves, uploaded, resolver>>
        /\ UNCHANGED concvars

\* A handler that answers before it constructs a manager.
RouteRejects(route, status, size) ==
    /\ resp' = Response(route, status, size, None)
    /\ UNCHANGED <<settings, fs, db, requests, uploaded, resolver>>
    /\ UNCHANGED <<seqvars, concvars>>

\* The inputs of an upload request: validate_file / validate_pdf_file
\* passed, the grade and subject rows exist, len(content), what build() does.
UploadRequests == [valid : BOOLEAN, found : BOOLEAN, size : Sizes, build : BuildOutcomes]

\* An upload handler of routes/documents.py: validate_file, the grade and
\* subject queries, the size check, then the shared part.
DocumentsUpload(route, table, folder_setting, req) ==
    IF ~req.valid THEN RouteRejects(route, 400, req.size)
    ELSE IF ~req.found THEN RouteRejects(route, 404, req.size)
    ELSE IF req.size > MAX_FILE_SIZE THEN RouteRejects(route, 413, req.size)
    ELSE RouteUpload(route, table, req.size, NormalizedFolder(folder_setting), req.build,
                     "2f1c9a4e-7b1d-4c55-9e0a-3d2b6f8a1c01")

\* An upload handler of routes/files.py: validate_pdf_file, then the shared
\* part with the folder setting as it is; the handler queries no grade.
FilesUpload(route, table, folder_setting, req) ==
    IF ~req.valid THEN RouteRejects(route, 400, req.size)
    ELSE RouteUpload(route, table, req.size, folder_setting, req.build,
                     "2f1c9a4e-7b1d-4c55-9e0a-3d2b6f8a1c01")

\* routes/documents.py upload_paper
documents_upload_paper ==
    \E req \in UploadRequests :
        DocumentsUpload("documents.upload_paper", "papers",
                        settings.google_drive_papers_folder_id, req)

\* routes/documents.py upload_textbook
documents_upload_textbook ==
    \E req \in UploadRequests :
        DocumentsUpload("documents.upload_textbook", "textbooks",
                        settings.google_drive_textbooks_folder_id, req)

\* routes/documents.py upload_study_notes
documents_upload_study_notes ==
    \E req \in UploadRequests :
        DocumentsUpload("documents.upload_study_notes", "study_notes",
                        settings.google_drive_notes_folder_id, req)

\* routes/files.py upload_paper
files_upload_paper ==
    \E req \in {q \in UploadRequests : q.found} :
        FilesUpload("files.upload_paper", "papers",
                    settings.google_drive_papers_folder_id, req)

\* routes/files.py upload_textbook
files_upload_textbook ==
    \E req \in {q \in UploadRequests : q.found} :
        FilesUpload("files.upload_textbook", "textbooks",
                    settings.google_drive_textbooks_folder_id, req)

\* routes/files.py upload_study_note
files_upload_study_note ==
    \E req \in {q \in UploadRequests : q.found} :
        FilesUpload("files.upload_study_note", "study_notes",
                    settings.google_drive_notes_folder_id, req)

\* The folder ids a deployment configures; "" is the default, " " a blank value.
FolderSettings == {<<"F1", "F2", "">>, <<"F2", "F2", " ">>, <<"", "F1", "F1">>}

InitRoutes ==
    /\ settings \in {RouteSettings(sa, f[1], f[2], f[3]) :
                        sa \in {None, "service-account.json"}, f \in FolderSettings}
    /\ fs \in {[sa_key |-> k, oauth_json |-> "absent", token |-> TokenAbsent] :
                  k \in {"absent", "garbage", "key"}}
    /\ mgr = NoManager
    /\ uploaded = {}
    /\ lookups = [f \in Folders |-> 0]
    /\ resolves = [f \in Folders |-> 0]
    /\ last = NoLast
    /\ ConcIdle
    /\ RoutesIdle

NextRoutes ==
    \/ documents_upload_paper
    \/ documents_upload_textbook
    \/ documents_upload_study_notes
    \/ files_upload_paper
    \/ files_upload_textbook
    \/ files_upload_study_note

SpecRoutes == InitRoutes /\ [][NextRoutes]_vars

(* ------------- the routes on stored documents --------------------------- *)
(* The delete handlers of routes/documents.py and the shared endpoints of   *)
(* routes/files.py, in a process whose database holds documents stored by   *)
(* earlier processes.                                                       *)

\* current_user of a request
Users == [id : {"u1", "u2"}, is_admin : BOOLEAN]

\* The rows the database holds when the process starts.
StoredRows ==
    {Row(1, "papers", "u1", <<"1AbC", "https://drive.google.com/file/d/1AbC/view?usp=drivesdk">>),
     Row(1, "textbooks", None, <<"1XyZ", "https://drive.google.com/file/d/1XyZ/view">>),
     Row(1, "study_notes", "u1", <<"2f1c9a4e-7b1d-4c55-9e0a-3d2b6f8a1c01",
         "https://drive.google.com/file/d/2f1c9a4e-7b1d-4c55-9e0a-3d2b6f8a1c01/view">>)}

\* The record ids a delete request names; no row has the second.
RecordIds == {1, 2}

\* drive_manager.<method>(...) on the handler's instance: the attribute
\* lookup, then the call, whose result is r.
invoke_method(self, method, r) ==
    IF method \notin MethodsOf(self.cls)
    THEN [self |-> self, kind |-> "Failed", res |-> Raised(AttributeError, <<>>, {})]
    ELSE r

\* GoogleDriveManager() in a handler
HandlerManager(build) ==
    [sa_initialize_service(NewManager(SAClass), settings.google_service_account_json,
                           fs.sa_key, build).self EXCEPT !.constructed = TRUE]

\* What the provider can answer the one request of a handler's manager call.
AnswersFor(build) ==
    IF HandlerManager(build).service = None THEN {Ok(NoFile)} ELSE PlainOutcomes

\* The effect of a handler that invoked its manager: r is the manager call.
Handled(route, status, op, arg, r, user, record) ==
    /\ mgr' = r.self
    /\ last' = [LastOf(op, None, r) EXCEPT !.args = <<arg>>]
    /\ resp' = [Response(route, status, 0, op) EXCEPT !.user = user, !.record = record]
    /\ UNCHANGED <<settings, fs, lookups, resolves, requests, uploaded, resolver>>
    /\ UNCHANGED concvars

\* A delete handler that raised HTTPException before the storage delete.
DeleteRejects(route, status, user, record) ==
    /\ resp' = [Response(route, status, 0, None) EXCEPT !.user = user, !.record = record]
    /\ UNCHANGED <<settings, fs, db, requests, uploaded, resolver>>
    /\ UNCHANGED <<seqvars, concvars>>

DocumentsDelete_strict(route, table, admin_only, record, user, build, outcome) ==
    LET rows == {r \in db : r.table = table /\ r.id = record}
        refused == IF admin_only THEN ~user.is_admin
                   ELSE \E r \in rows : r.owner_id # user.id /\ ~user.is_admin
    IN  IF admin_only /\ refused THEN DeleteRejects(route, 403, user, record)
        ELSE IF rows = {} THEN DeleteRejects(route, 404, user, record)
        ELSE IF refused THEN DeleteRejects(route, 403, user, record)
        ELSE \E row \in rows :
               LET r == invoke_method(HandlerManager(build), "delete_file",
                                      delete_file(HandlerManager(build), row.google_drive_id, outcome))
               IN  /\ db' = IF r.res.outcome = "returned" THEN db \ {row} ELSE db
                   /\ Handled(route, IF r.res.outcome = "returned" THEN 204 ELSE 500,
                              "delete_file", row.google_drive_id, r, user, record)

\* A delete handler of routes/documents.py: the query, the owner or admin
\* check (delete_textbook checks is_admin before it queries), the storage
\* delete under `except Exception` with the warning, then db.delete and
\* db.commit.
DocumentsDelete(route, table, admin_only, record, user, build, outcome) ==
    LET rows == {r \in db : r.table = table /\ r.id = record}
        refused == IF admin_only THEN ~user.is_admin
                   ELSE \E r \in rows : r.owner_id # user.id /\ ~user.is_admin
    IN  IF admin_only /\ refused THEN DeleteRejects(route, 403, user, record)
        ELSE IF rows = {} THEN DeleteRejects(route, 404, user, record)
        ELSE IF refused THEN DeleteRejects(route, 403, user, record)
        ELSE \E row \in rows :
               LET r == invoke_method(HandlerManager(build), "delete_file",
                                      delete_file(HandlerManager(build), row.google_drive_id, outcome))
               IN  /\ db' = db \ {row}
                   /\ Handled(route, 204, "delete_file", row.google_drive_id, r, user, record)

\* routes/documents.py delete_paper
documents_delete_paper ==
    \E record \in RecordIds, user \in Users, build \in BuildOutcomes :
    \E outcome \in AnswersFor(build) :
        DocumentsDelete("documents.delete_paper", "papers", FALSE, record, user, build, outcome)

\* routes/documents.py delete_textbook
documents_delete_textbook ==
    \E record \in RecordIds, user \in Users, build \in BuildOutcomes :
    \E outcome \in AnswersFor(build) :
        DocumentsDelete("documents.delete_textbook", "textbooks", TRUE, record, user, build, outcome)

\* routes/documents.py delete_study_note
documents_delete_study_note ==
    \E record \in RecordIds, user \in Users, build \in BuildOutcomes :
    \E outcome \in AnswersFor(build) :
        DocumentsDelete("documents.delete_study_note", "study_notes", FALSE, record, user, build, outcome)

\* A shared endpoint of routes/files.py that derives a URL: no try, so what
\* the manager call raises leaves the handler and the server answers 500.
FilesUrl(route, ok_status, op, file_id, r) ==
    /\ db' = db
    /\ Handled(route, IF r.res.outcome = "returned" THEN ok_status ELSE 500, op, file_id, r,
               [id |-> None, is_admin |-> FALSE], 0)

\* routes/files.py download_file: RedirectResponse(url=download_url)
files_download_file ==
    \E file_id \in FileIds, build \in BuildOutcomes :
        FilesUrl("files.download_file", 307, "get_direct_download_url", file_id,
                 invoke_method(HandlerManager(build), "get_direct_download_url",
                               get_direct_download_url(HandlerManager(build), file_id)))

\* routes/files.py preview_file: RedirectResponse(url=preview_url)
files_preview_file ==
    \E file_id \in FileIds, build \in BuildOutcomes :
        FilesUrl("files.preview_file", 307, "get_preview_url", file_id,
                 invoke_method(HandlerManager(build), "get_preview_url",
                               get_preview_url(HandlerManager(build), file_id)))

\* routes/files.py get_thumbnail
files_get_thumbnail ==
    \E file_id \in FileIds, size \in ThumbnailSizes, build \in BuildOutcomes :
        FilesUrl("files.get_thumbnail", 200, "get_thumbnail_url", file_id,
                 invoke_method(HandlerManager(build), "get_thumbnail_url",
                               get_thumbnail_url(HandlerManager(build), file_id, size)))

\* routes/files.py get_file_info: every exception of the manager call is
\* answered 500; the metadata the provider returns is never empty, so the
\* 404 of `if not file_info` is not taken.
files_get_file_info ==
    \E file_id \in FileIds, build \in BuildOutcomes :
    \E outcome \in AnswersFor(build) :
        FilesUrl("files.get_file_info", 200, "get_file_info", file_id,
                 invoke_method(HandlerManager(build), "get_file_info",
                               get_file_info(HandlerManager(build), file_id, outcome)))

InitStored ==
    /\ settings \in {RouteSettings(sa, "F1", "F2", "") : sa \in {None, "service-account.json"}}
    /\ fs \in {[sa_key |-> k, oauth_json |-> "absent", token |-> TokenAbsent] :
                  k \in {"absent", "garbage", "key"}}
    /\ mgr = NoManager
    /\ uploaded = {}
    /\ lookups = [f \in Folders |-> 0]
    /\ resolves = [f \in Folders |-> 0]
    /\ last = NoLast
    /\ ConcIdle
    /\ db = StoredRows
    /\ resp = NoResponse
    /\ requests = [f \in Folders |-> 0]

NextStored ==
    \/ documents_delete_paper
    \/ documents_delete_textbook
    \/ documents_delete_study_note
    \/ files_download_file
    \/ files_preview_file
    \/ files_get_thumbnail
    \/ files_get_file_info

SpecStored == InitStored /\ [][NextStored]_vars

(* ------------- upload, then delete, on one manager ---------------------- *)
(* The service-account manager of Spec with the files it created at the     *)
(* provider remembered.  The provider gives every file a new id, and it     *)
(* answers the delete of a file it holds in personal storage unless the     *)
(* request does not get through.  The lookup counters of Spec are not kept. *)

\* A file mgr created: its id, the folder it went to, whether mgr deleted it.
Uploaded(id, folder_id, deleted) == [id |-> id, folder |-> folder_id, deleted |-> deleted]

\* The create answers the provider can give: a created file has a new id.
NewCreatesFor(self) ==
    {c \in CreatesFor(self) : c.exc = "ok" => \A u \in uploaded : u.id # c.file.id}

\* What the provider can answer a files().delete of this id.
DeleteOutcomes(file_id) ==
    IF \E u \in uploaded : u.id = file_id /\ ~u.deleted /\ DriveIdOf(u.folder) = None
    THEN {o \in PlainOutcomes : o.exc # "HttpError"}
    ELSE PlainOutcomes

\* GoogleDriveManager() in a process that remembers its uploads
LifeConstruct == ConstructServiceAccount

\* mgr.upload_file_from_bytes(...), the created file remembered
LifeUpload ==
    /\ SAReady
    /\ \E folder_id \in FolderArgs, create \in NewCreatesFor(mgr) :
       \E lookup \in LookupsFor(mgr, folder_id), share \in SharesFor(create),
          uuid \in UuidsFor(mgr, create) :
         LET r == upload_file_from_bytes(mgr, folder_id, uuid, lookup, create, share)
         IN  /\ mgr' = r.self
             /\ last' = LastOf("upload_file_from_bytes", folder_id, r)
             /\ uploaded' = IF create.exc = "ok" /\ ~mgr.mock_mode /\ mgr.service # None
                            THEN uploaded \cup {Uploaded(create.file.id, folder_id, FALSE)}
                            ELSE uploaded
    /\ UNCHANGED <<settings, fs, lookups, resolves>>
    /\ UNCHANGED <<concvars, routevars, resolver>>

\* mgr.delete_file(...), the deletion remembered
LifeDelete ==
    /\ SAReady
    /\ \E file_id \in FileIds \cup {u.id : u \in uploaded} :
       \E outcome \in DeleteOutcomes(file_id) :
         LET r == delete_file(mgr, file_id, outcome)
         IN  /\ mgr' = r.self
             /\ last' = [LastOf("delete_file", None, r) EXCEPT !.args = <<file_id>>]
             /\ uploaded' = IF mgr.service # None /\ outcome.exc = "ok"
                            THEN {IF u.id = file_id THEN Uploaded(u.id, u.folder, TRUE) ELSE u :
                                     u \in uploaded}
                            ELSE uploaded
    /\ UNCHANGED <<settings, fs, lookups, resolves>>
    /\ UNCHANGED <<concvars, routevars, resolver>>

NextLife ==
    \/ LifeConstruct
    \/ LifeUpload
    \/ LifeDelete

SpecLife == InitServiceAccount /\ [][NextLife]_vars

(* ------------- concurrent resolutions on one manager -------------------- *)
(* Threads that upload through one GoogleDriveManager and are inside its    *)
(* _get_shared_drive_id at the same time.  A step is one read or write of   *)
(* the shared _drive_id_cache, or the files().get() request, during which   *)
(* the other threads run.                                                   *)

\* GoogleDriveManager(), the instance the threads share
RaceConstruct == ConstructServiceAccount

\* an upload enters self._get_shared_drive_id(folder_id)
ResolveCall(t) ==
    /\ SAReady
    /\ resolver[t].pc = "idle"
    /\ \E folder_id \in Folders :
         /\ Resolves(mgr, folder_id)
         /\ resolves[folder_id] < MaxCalls
         /\ resolves' = Bump(resolves, folder_id, 1)
         /\ resolver' = [resolver EXCEPT ![t] = Resolver("check", folder_id, Ok(NoFile), FALSE, None)]
    /\ UNCHANGED <<settings, fs, mgr, lookups, last, uploaded>>
    /\ UNCHANGED <<concvars, routevars>>

\* if folder_id in self._drive_id_cache:
ResolveCheck(t) ==
    /\ resolver[t].pc = "check"
    /\ resolver' = [resolver EXCEPT ![t].pc =
                        IF resolver[t].folder_id \in DOMAIN mgr.drive_id_cache
                        THEN "read" ELSE "lookup"]
    /\ UNCHANGED <<settings, fs, mgr, lookups, resolves, last, uploaded>>
    /\ UNCHANGED <<concvars, routevars>>

\* return self._drive_id_cache[folder_id]
ResolveRead(t) ==
    /\ resolver[t].pc = "read"
    /\ resolver' = [resolver EXCEPT ![t] =
                        IF @.folder_id \in DOMAIN mgr.drive_id_cache
                        THEN Resolver("returned", @.folder_id, @.answer, TRUE,
                                      mgr.drive_id_cache[@.folder_id])
                        ELSE Resolver("raised", @.folder_id, @.answer, TRUE, "KeyError")]
    /\ UNCHANGED <<settings, fs, mgr, lookups, resolves, last, uploaded>>
    /\ UNCHANGED <<concvars, routevars>>

\* file_info = self.service.files().get(...).execute()
ResolveLookup(t) ==
    /\ resolver[t].pc = "lookup"
    /\ \E lookup \in LookupOutcomes :
         resolver' = [resolver EXCEPT ![t].pc = "store", ![t].answer = lookup]
    /\ lookups' = Bump(lookups, resolver[t].folder_id, 1)
    /\ UNCHANGED <<settings, fs, mgr, resolves, last, uploaded>>
    /\ UNCHANGED <<concvars, routevars>>

ResolveStore_evicting(t) ==
    /\ resolver[t].pc = "store"
    /\ LET folder_id == resolver[t].folder_id
           answered == resolver[t].answer.exc = "ok"
           drive_id == IF answered THEN DriveIdOf(folder_id) ELSE None
       IN  /\ mgr' = [mgr EXCEPT !.drive_id_cache =
                         IF answered THEN CacheAfterLookup(@, folder_id, drive_id)
                         ELSE [f \in DOMAIN @ \ {folder_id} |-> @[f]]]
           /\ resolver' = [resolver EXCEPT ![t].pc = "returned",
                                           ![t].ret = IF Truthy(drive_id) THEN drive_id ELSE None]
    /\ UNCHANGED <<settings, fs, lookups, resolves, last, uploaded>>
    /\ UNCHANGED <<concvars, routevars>>

\* drive_id = file_info.get('driveId'); a truthy one is cached and returned;
\* except Exception: return None
ResolveStore(t) ==
    /\ resolver[t].pc = "store"
    /\ LET folder_id == resolver[t].folder_id
           answered == resolver[t].answer.exc = "ok"
           drive_id == IF answered THEN DriveIdOf(folder_id) ELSE None
       IN  /\ mgr' = [mgr EXCEPT !.drive_id_cache =
                         IF answered THEN CacheAfterLookup(@, folder_id, drive_id) ELSE @]
           /\ resolver' = [resolver EXCEPT ![t].pc = "returned",
                                           ![t].ret = IF Truthy(drive_id) THEN drive_id ELSE None]
    /\ UNCHANGED <<settings, fs, lookups, resolves, last, uploaded>>
    /\ UNCHANGED <<concvars, routevars>>

\* the upload goes on with the value returned
ResolveReturn(t) ==
    /\ resolver[t].pc \in {"returned", "raised"}
    /\ resolver' = [resolver EXCEPT ![t] = IdleResolver]
    /\ UNCHANGED <<settings, fs, mgr, lookups, resolves, last, uploaded>>
    /\ UNCHANGED <<concvars, routevars>>

NextRace ==
    \/ RaceConstruct
    \/ \E t \in Threads : ResolveCall(t)
    \/ \E t \in Threads : ResolveCheck(t)
    \/ \E t \in Threads : ResolveRead(t)
    \/ \E t \in Threads : ResolveLookup(t)
    \/ \E t \in Threads : ResolveStore(t)
    \/ \E t \in Threads : ResolveReturn(t)

SpecRace == InitServiceAccount /\ [][NextRace]_vars

(* ------------------------------ the claims ------------------------------ *)

UploadOps == {"upload_file", "upload_file_from_bytes", "upload_file_from_upload"}

LiveSA == SAReady /\ ~mgr.mock_mode
LiveOAuth == OAuthReady /\ ~mgr.mock_mode

\* The files.create requests of the last call.
CreateCalls == {i \in DOMAIN last.calls : last.calls[i].api = "files.create"}

\* The last call was an upload whose create request the provider refused
\* with one of these HTTP statuses.
CreateRefused(statuses) ==
    /\ last.op \in UploadOps
    /\ \E i \in CreateCalls : /\ last.calls[i].outcome.exc = "HttpError"
                              /\ last.calls[i].outcome.status \in statuses

\* C1: on one live manager instance, once _get_shared_drive_id has been called
\* for a folder, the provider metadata lookup for that folder has been
\* performed exactly once, however many calls followed and whatever the first
\* resolution returned (a drive id, None, or a failure).
C1_OneLookupPerFolder ==
    \A f \in Folders : (LiveSA /\ resolves[f] >= 1) => lookups[f] = 1

\* C2: on a live manager, when the create call of upload_file_from_bytes fails
\* with a not-found error, the upload does not raise: it returns a pair
\* (id, link) with a non-empty id and link https://drive.google.com/file/d/<id>/view.
C2_NotFoundFallsBack ==
    (LiveSA /\ last.op = "upload_file_from_bytes" /\ CreateRefused({"404"}))
        => /\ last.outcome = "returned"
           /\ Len(last.value) = 2
           /\ last.value[1] \notin {None, ""}
           /\ last.value[2] = "https://drive.google.com/file/d/" \o last.value[1] \o "/view"

C2_Witness ==
    /\ LiveSA /\ last.op = "upload_file_from_bytes" /\ CreateRefused({"404"})
    /\ last.outcome = "returned"

\* C3: once construction has ended no operation changes mock_mode, and an
\* upload on a live instance that took the per-call fallback earlier still
\* issues a live create request.
C3_ModeFixed ==
    /\ [][mgr.constructed => mgr'.mock_mode = mgr.mock_mode]_vars
    /\ []((SAReady /\ last.fell_back /\ last.op \in UploadOps
             /\ last.exc.type # "FileNotFoundError")
            => (~mgr.mock_mode /\ CreateCalls # {}))

C3_Witness ==
    /\ SAReady /\ last.fell_back /\ last.op \in UploadOps
    /\ last.kind = "Uploaded" /\ CreateCalls # {}

\* C4: when the service-account key path is not configured or the key file does
\* not exist, the constructed manager is in mock mode and every upload on it
\* returns a result without any provider call.
C4_MissingConfigIsMock ==
    (SAReady /\ (~Truthy(settings.google_service_account_json) \/ fs.sa_key = "absent"))
        => /\ mgr.mock_mode
           /\ last.op \in UploadOps => (last.outcome = "returned" /\ last.calls = <<>>)

C4_Witness ==
    /\ SAReady /\ fs.sa_key = "absent" /\ Truthy(settings.google_service_account_json)
    /\ last.op = "upload_file_from_bytes" /\ last.outcome = "returned"

\* C5: constructing either manager never raises, and the constructed manager
\* is in mock mode or holds a built client.
C5_ConstructionNeverRaises ==
    /\ last.op = "__init__" => (last.outcome = "returned" /\ mgr.constructed)
    /\ mgr.constructed => (mgr.mock_mode \/ mgr.service = "client")

C5_Witness ==
    /\ OAuthReady /\ last.op = "__init__" /\ mgr.mock_mode
    /\ \E i \in DOMAIN last.calls : last.calls[i].outcome.exc # "ok"

C7_QuotaFallsBackEverywhere ==
    (LiveSA /\ last.op \in {"upload_file", "upload_file_from_bytes"} /\ CreateRefused({"403"}))
        => (last.outcome = "returned" /\ last.kind = "Fallback")

\* C8: on a live OAuth manager a create failure classified not-found or
\* permission/quota-exceeded makes upload_file and upload_file_from_upload
\* return a mock pair instead of raising.
C8_OAuthFallsBack ==
    (LiveOAuth /\ last.op \in {"upload_file", "upload_file_from_upload"}
       /\ CreateRefused({"404", "403"}))
        => last.outcome = "returned"

\* C9: if the create call succeeded, the upload returns the id and link of the
\* created file whatever the grant-public-read call did.
C9_ShareFailureSwallowed ==
    (LiveSA /\ last.op \in {"upload_file", "upload_file_from_bytes"})
        => \A i \in CreateCalls :
             last.calls[i].outcome.exc = "ok"
                => /\ last.outcome = "returned"
                   /\ last.kind = "Uploaded"
                   /\ last.value[1] = last.calls[i].outcome.file.id

\* C10: concurrent refreshes of one delegated credential are serialized: over
\* every interleaving of concurrent initializations that find the cached token
\* expired, at most one refresh request is in flight and at most one is issued.
C10_RefreshSerialized ==
    /\ Cardinality(inflight) <= 1
    /\ refreshed <= 1

\* C11: the interactive consent flow (flow.run_local_server) runs at most once
\* in the lifetime of the process, over every interleaving of get_drive_manager
\* calls, also when the first flow attempt fails.
C11_FlowAtMostOnce == flows <= 1

\* The credential steps of the last construction: refresh, consent flow and
\* token-file write.
CredentialCalls ==
    {i \in DOMAIN last.calls :
        last.calls[i].api \in {"creds.refresh", "flow.run_local_server", "token.write"}}

\* The last construction reached build() and build() returned the client.
BuildReturned ==
    \E i \in DOMAIN last.calls :
        last.calls[i].api = "discovery.build" /\ last.calls[i].outcome.exc = "ok"

\* The OAuth manager was just constructed and token.pickle held a valid
\* credential when the constructor ran (only the initial file holds at1 unexpired).
ConstructedOnValidToken ==
    OAuthReady /\ last.op = "__init__" /\ fs.token = TokenValid

\* C12 as stated: when the cached credential is present and valid,
\* initialization performs no refresh, no consent flow and no token-file
\* write, and the manager ends in live mode.
C12_ValidTokenEndsLive ==
    ConstructedOnValidToken => (CredentialCalls = {} /\ ~mgr.mock_mode)

\* C12 amended: when the cached credential is present and valid,
\* initialization performs no refresh, no consent flow and no token-file
\* write; the manager ends in live mode exactly when the OAuth client file is
\* configured and exists and build() returns, and in mock mode otherwise.
C12_ValidTokenUsedAsIs ==
    ConstructedOnValidToken
        => /\ CredentialCalls = {}
           /\ ~mgr.mock_mode <=> /\ Truthy(settings.google_oauth_credentials_json)
                                 /\ fs.oauth_json # "absent"
                                 /\ BuildReturned

C12_Witness ==
    /\ ConstructedOnValidToken /\ ~mgr.mock_mode /\ mgr.service = "client"
    /\ CredentialCalls = {}

\* The credential acquisitions (refresh or consent flow) of the last
\* construction that ended with this outcome.
Acquisitions(ok) ==
    {i \in DOMAIN last.calls :
        /\ last.calls[i].api \in {"creds.refresh", "flow.run_local_server"}
        /\ (last.calls[i].outcome.exc = "ok") = ok}

\* The access token a successful acquisition yields.
AcquiredToken(call) == IF call.api = "creds.refresh" THEN "at2" ELSE "at3"

\* C13: a credential obtained by a successful refresh or consent flow is
\* written to the token cache before the manager becomes live (the write
\* precedes build() and the cache holds that credential); when the refresh or
\* the flow fails, the construction leaves the token cache unchanged and the
\* manager ends in mock mode.
C13_PersistedBeforeLive ==
    /\ []((OAuthReady /\ last.op = "__init__" /\ ~mgr.mock_mode)
            => \A i \in Acquisitions(TRUE) :
                 /\ fs.token.token = AcquiredToken(last.calls[i])
                 /\ \E j \in DOMAIN last.calls :
                      /\ i < j
                      /\ last.calls[j].api = "token.write"
                      /\ last.calls[j].target = AcquiredToken(last.calls[i])
                      /\ last.calls[j].outcome.exc = "ok"
                      /\ \E k \in DOMAIN last.calls :
                           j < k /\ last.calls[k].api = "discovery.build")
    /\ [][(last'.op = "__init__"
             /\ \E i \in DOMAIN last'.calls :
                  /\ last'.calls[i].api \in {"creds.refresh", "flow.run_local_server"}
                  /\ last'.calls[i].outcome.exc # "ok")
            => (fs'.token = fs.token /\ mgr'.mock_mode)]_vars

C13_Witness ==
    /\ OAuthReady /\ last.op = "__init__" /\ ~mgr.mock_mode
    /\ Acquisitions(TRUE) # {}
    /\ fs.token = Refreshed(TokenExpired)

\* C14: every result of the mock path, the early return of a manager in mock
\* mode as well as the per-call fallback of a live one, in either manager
\* class, is a returned pair whose id has the shape of a uuid string (36
\* characters, not a provider id) and whose link is exactly https://drive.google.com/file/d/<id>/view.
C14_MockResultShape ==
    (last.op \in UploadOps /\ last.kind \in {"Mocked", "Fallback"})
        => /\ last.outcome = "returned"
           /\ Len(last.value) = 2
           /\ Len(last.value[1]) = 36
           /\ last.value[1] \notin {f.id : f \in ProviderFiles}
           /\ last.value[2] = "https://drive.google.com/file/d/" \o last.value[1] \o "/view"

C14_Witness ==
    /\ LiveSA /\ last.op = "upload_file" /\ last.kind = "Fallback"
    /\ last.value[2] = "https://drive.google.com/file/d/" \o last.value[1] \o "/view"

UrlOps == {"get_direct_download_url", "get_preview_url", "get_thumbnail_url"}

\* C15: get_direct_download_url(id), get_preview_url(id) and
\* get_thumbnail_url(id, size) are pure: the result is the fixed URL pattern
\* filled with the arguments, whatever the manager's mode and whatever was
\* uploaded before; the call issues no provider request and leaves the
\* manager, the token cache and the lookup counts unchanged.
C15_UrlsArePure ==
    /\ [](last.op \in UrlOps
            => /\ last.outcome = "returned"
               /\ last.calls = <<>>
               /\ last.op = "get_direct_download_url"
                    => last.value = "https://drive.google.com/uc?export=download&id=" \o last.args[1]
               /\ last.op = "get_preview_url"
                    => last.value = "https://drive.google.com/file/d/" \o last.args[1] \o "/preview"
               /\ last.op = "get_thumbnail_url"
                    => last.value = "https://drive.google.com/thumbnail?id=" \o last.args[1]
                                       \o "&sz=" \o last.args[2])
    /\ [][last'.op \in UrlOps
            => (mgr' = mgr /\ fs' = fs /\ lookups' = lookups /\ settings' = settings)]_vars

C15_Witness ==
    /\ OAuthReady /\ mgr.mock_mode
    /\ last.op = "get_direct_download_url" /\ last.args = <<"1AbC">>
    /\ last.value = "https://drive.google.com/uc?export=download&id=1AbC"

C19_SizeCheckedBeforeUpload ==
    resp.size > MAX_FILE_SIZE => resp.manager_call = None

\* The files.get requests of the last call that the provider answered.
AnsweredGets ==
    {i \in DOMAIN last.calls :
        last.calls[i].api = "files.get" /\ last.calls[i].outcome.exc = "ok"}

\* C17: get_file_info is read-only and repeatable in both managers: what it
\* returns for a file id is the metadata the provider holds for that id (in
\* OAuth mock mode the fixed mock metadata of that id), so two calls for the
\* same id return the same metadata, and no call changes the manager's mode,
\* its cache, its client or the token cache.
C17_InfoReadOnly ==
    /\ []((last.op = "get_file_info" /\ last.outcome = "returned")
            => /\ \A i \in AnsweredGets :
                    last.value = [id |-> last.calls[i].target, name |-> "paper.pdf",
                                  mimeType |-> "application/pdf"]
               /\ (OAuthReady /\ mgr.mock_mode /\ last.calls = <<>>)
                    => last.value = [id |-> last.args[1],
                                     name |-> "file_" \o last.args[1] \o ".pdf",
                                     mimeType |-> "application/pdf"])
    /\ [][last'.op = "get_file_info"
            => (mgr' = mgr /\ fs' = fs /\ lookups' = lookups)]_vars

C17_Witness ==
    /\ LiveOAuth /\ last.op = "get_file_info" /\ last.outcome = "returned"
    /\ AnsweredGets # {}
    /\ last.value.id = "1AbC"

\* The files.delete request of the last call, if it was answered / refused.
DeleteCalls(ok) ==
    {i \in DOMAIN last.calls :
        last.calls[i].api = "files.delete" /\ (last.calls[i].outcome.exc = "ok") = ok}

ResolvedDrive ==
    IF last.folder \in DOMAIN mgr.drive_id_cache THEN mgr.drive_id_cache[last.folder] ELSE None

\* C20: in a live upload the create request and the grant-public-read request
\* carry exactly the drive id resolved for the destination folder (with
\* corpora 'drive'), and neither carries a drive id or corpora when none was
\* resolved: no folder, a folder outside any shared drive, or a failed lookup.
C20_DriveScoping ==
    (LiveSA /\ last.op \in {"upload_file", "upload_file_from_bytes"})
        => /\ ResolvedDrive # None => ResolvedDrive = DriveIdOf(last.folder)
           /\ \A i \in DOMAIN last.calls :
                last.calls[i].api \in {"files.create", "permissions.create"}
                    => /\ last.calls[i].driveId = ResolvedDrive
                       /\ last.calls[i].corpora = IF ResolvedDrive = None THEN None ELSE "drive"
                       /\ (~Truthy(last.folder) \/ DriveIdOf(last.folder) = None)
                            => last.calls[i].driveId = None
                       /\ \A j \in DOMAIN last.calls :
                            (last.calls[j].api = "files.get" /\ last.calls[j].outcome.exc # "ok")
                                => last.calls[i].driveId = None

C20_Witness ==
    /\ LiveSA /\ last.op = "upload_file_from_bytes" /\ last.folder = "F2"
    /\ last.kind = "Uploaded"
    /\ \E i \in DOMAIN last.calls :
         last.calls[i].api = "files.create" /\ last.calls[i].driveId = "D1"
    /\ \E i \in DOMAIN last.calls :
         last.calls[i].api = "permissions.create" /\ last.calls[i].driveId = "D1"

\* C21: list_files_in_folder scopes its list request to the folder's shared
\* drive whenever a drive id is known for the folder, cached on the manager or
\* resolvable at the provider.
C21_ListScopedToDrive ==
    (LiveSA /\ last.op = "list_files_in_folder")
        => \A i \in DOMAIN last.calls :
             (/\ last.calls[i].api = "files.list"
              /\ \/ last.calls[i].target \in DOMAIN mgr.drive_id_cache
                 \/ DriveIdOf(last.calls[i].target) # None)
                => /\ last.calls[i].driveId = DriveIdOf(last.calls[i].target)
                   /\ last.calls[i].corpora = "drive"

\* The requests a manager sends to the storage provider.
ProviderApis ==
    {"files.create", "files.get", "files.delete", "files.list", "files.get_media",
     "permissions.create"}

\* C22: every request a manager sends to the provider (create, get for the
\* topology lookup, get for info, delete, list, permission grant, media get)
\* passes supportsAllDrives = True.
C22_EveryCallCrossDrive ==
    \A i \in DOMAIN last.calls :
        last.calls[i].api \in ProviderApis => last.calls[i].supportsAllDrives = TRUE

\* The topology lookups of the last call that failed.
FailedLookups ==
    {j \in DOMAIN last.calls :
        last.calls[j].api = "files.get" /\ last.calls[j].outcome.exc # "ok"}

\* C23: a topology lookup failure never aborts an upload: _get_shared_drive_id
\* raises nothing and returns None when its lookup fails, the upload then
\* sends its create request without drive scoping, and an upload without a
\* destination folder performs no lookup at all.
C23_LookupFailureProceeds ==
    /\ (LiveSA /\ last.op = "_get_shared_drive_id")
         => /\ last.outcome = "returned"
            /\ FailedLookups # {} => last.value = None
    /\ (LiveSA /\ last.op \in {"upload_file", "upload_file_from_bytes"})
         => /\ ~Truthy(last.folder)
                 => \A j \in DOMAIN last.calls : last.calls[j].api # "files.get"
            /\ (FailedLookups # {} /\ last.exc.type # "FileNotFoundError")
                 => \A j \in FailedLookups :
                      \E i \in CreateCalls :
                          /\ j < i
                          /\ last.calls[i].driveId = None
                          /\ last.calls[i].corpora = None

C23_Witness ==
    /\ LiveSA /\ last.op = "upload_file_from_bytes" /\ last.folder = "F2"
    /\ FailedLookups # {}
    /\ last.kind = "Uploaded"
    /\ \E i \in CreateCalls : last.calls[i].driveId = None

\* The grant-public-read requests of the last call.
ShareCalls == {i \in DOMAIN last.calls : last.calls[i].api = "permissions.create"}

\* C24: there is no automatic retry: one upload call sends at most one create
\* request and at most one grant-public-read request, the grant only after
\* the create succeeded; after a failed create the upload either returns the
\* per-call mock result or raises, and sends nothing more.
C24_NoRetry ==
    (last.op \in UploadOps)
        => /\ Cardinality(CreateCalls) <= 1
           /\ Cardinality(ShareCalls) <= 1
           /\ \A j \in ShareCalls :
                \E i \in CreateCalls : i < j /\ last.calls[i].outcome.exc = "ok"
           /\ \A i \in CreateCalls :
                last.calls[i].outcome.exc # "ok"
                    => /\ i = Len(last.calls)
                       /\ \/ last.kind = "Fallback" /\ last.outcome = "returned"
                          \/ last.kind = "Failed" /\ last.outcome = "raised"

C24_Witness ==
    /\ LiveSA /\ last.op = "upload_file_from_bytes" /\ CreateRefused({"500"})
    /\ Cardinality(CreateCalls) = 1 /\ ShareCalls = {}
    /\ last.outcome = "raised"

\* The resolvers that have returned.
ReturnedResolvers == {t \in Threads : resolver[t].pc = "returned"}

\* Once a cache entry is written, it stays and keeps its value.
CacheEntriesKept ==
    \A f \in DOMAIN mgr.drive_id_cache :
        /\ f \in DOMAIN mgr'.drive_id_cache
        /\ mgr'.drive_id_cache[f] = mgr.drive_id_cache[f]

\* C25 as claimed: over every interleaving of concurrent resolutions of a
\* folder on one manager, each resolver returns the provider's drive id for
\* the folder, and a cache entry, once written, is never changed or removed.
C25_RacesHarmless ==
    /\ [](\A t \in Threads :
            resolver[t].pc \in {"returned", "raised"}
                => /\ resolver[t].pc = "returned"
                   /\ resolver[t].ret = DriveIdOf(resolver[t].folder_id))
    /\ [][CacheEntriesKept]_vars

\* C25, amended: over every interleaving, a resolver that the cache or the
\* provider answered returns the provider's drive id for the folder, a
\* resolver whose own lookup failed returns None, no resolver raises, and a
\* cache entry, once written, is never changed or removed.
C25_RacesHarmlessWhenAnswered ==
    /\ [](\A t \in Threads :
            resolver[t].pc \in {"returned", "raised"}
                => /\ resolver[t].pc = "returned"
                   /\ resolver[t].ret =
                         IF resolver[t].hit \/ resolver[t].answer.exc = "ok"
                         THEN DriveIdOf(resolver[t].folder_id) ELSE None)
    /\ [][CacheEntriesKept]_vars

\* Both threads resolved the shared-drive folder at once: both missed the
\* cache, one lookup was answered and one failed, and the entry is there.
C25_Witness ==
    /\ ReturnedResolvers = Threads
    /\ \A t \in Threads : resolver[t].folder_id = "F2" /\ ~resolver[t].hit
    /\ \E t \in Threads : resolver[t].answer.exc = "ok" /\ resolver[t].ret = "D1"
    /\ \E t \in Threads : resolver[t].answer.exc # "ok" /\ resolver[t].ret = None
    /\ "F2" \in DOMAIN mgr.drive_id_cache

\* The last call returned the id of a file the provider created in it.
ReturnedCreatedFile ==
    /\ last.outcome = "returned"
    /\ \E i \in CreateCalls :
         /\ last.calls[i].outcome.exc = "ok"
         /\ last.value[1] = last.calls[i].outcome.file.id

\* C26: an upload that returns a mock result, on a manager in persistent Mock
\* mode or by the per-call fallback, writes a log line marked
\* "[Google Drive Mock]"; an upload that returns the id of a file the
\* provider created writes no such line.
C26_MockUploadsLogged ==
    (last.op \in UploadOps /\ last.outcome = "returned")
        => /\ last.kind \in {"Mocked", "Fallback"} => LogMock \in last.logs
           /\ last.kind \notin {"Mocked", "Fallback"}
                => /\ ReturnedCreatedFile
                   /\ LogMock \notin last.logs

C26_Witness ==
    /\ LiveSA /\ last.op = "upload_file_from_bytes"
    /\ last.kind = "Fallback" /\ last.outcome = "returned"
    /\ CreateCalls # {} /\ LogMock \in last.logs

\* The public operations that take a file id or a folder.
FileAndFolderOps ==
    {"delete_file", "get_file_info", "download_file", "list_files_in_folder", "create_folder"}

\* C27: on a GoogleDriveManager in persistent Mock mode, whose service client
\* is None, every public operation that takes a file id or a folder
\* completes: it sends no provider request and it does not fail on the
\* absent client.
C27_MockOperationsComplete ==
    (SAReady /\ mgr.mock_mode /\ mgr.service = None /\ last.op \in FileAndFolderOps)
        => /\ last.calls = <<>>
           /\ last.outcome = "returned"

\* C28: every manager operation a route invokes on its GoogleDriveManager is
\* one the class defines, so an upload request with valid inputs on a
\* Mock-mode manager is answered 201 with a stored row whose google_drive_id
\* is the mock id the upload returned.
C28_RoutesCallDefinedOperations ==
    resp.manager_call # None
        => /\ resp.manager_call \in MethodsOf(mgr.cls)
           /\ (resp.manager_call = "upload_file_from_upload" /\ mgr.mock_mode)
                => /\ resp.status = 201
                   /\ last.outcome = "returned"
                   /\ \E row \in db : row.google_drive_id = last.value[1]

DocumentsUploadRoutes ==
    {"documents.upload_paper", "documents.upload_textbook", "documents.upload_study_notes"}

\* C29: in the upload routes of routes/documents.py a step adds a row only
\* if the manager's upload returned a pair in it, the row holding that pair;
\* when the upload raised, the request is answered 500 and the database is
\* as it was before the request.
C29_RowOnlyAfterUpload ==
    [][resp'.route \in DocumentsUploadRoutes
          => /\ db' # db
                  => /\ resp'.manager_call = "upload_file_from_upload"
                     /\ last'.outcome = "returned"
                     /\ \E row \in db' \ db :
                          /\ db' = db \cup {row}
                          /\ row.google_drive_id = last'.value[1]
                          /\ row.google_drive_url = last'.value[2]
             /\ (resp'.manager_call = "upload_file_from_upload" /\ last'.outcome = "raised")
                  => /\ resp'.status = 500
                     /\ db' = db]_vars

C29_Witness ==
    /\ resp.route = "documents.upload_textbook"
    /\ resp.manager_call = "upload_file_from_upload"
    /\ last.op = "upload_file_from_upload" /\ last.outcome = "raised"
    /\ resp.status = 500
    /\ db = {}

DeleteRoutes ==
    {"documents.delete_paper", "documents.delete_textbook", "documents.delete_study_note"}

\* The table a delete route works on.
TableOf(route) ==
    IF route = "documents.delete_paper" THEN "papers"
    ELSE IF route = "documents.delete_textbook" THEN "textbooks" ELSE "study_notes"

\* C30: in the delete routes of routes/documents.py, when the record exists
\* and the caller is authorized (the owner or an admin; for a textbook, which
\* has no owner, an admin) the row is deleted and the request answered 204
\* whether delete_file returned or raised; when the caller is neither owner
\* nor admin, no manager is called and no row is deleted.
C30_StorageDeleteBestEffort ==
    [][resp'.route \in DeleteRoutes
          => LET rows == {r \in db : r.table = TableOf(resp'.route) /\ r.id = resp'.record}
                 user == resp'.user
                 owner == \E r \in rows : r.owner_id = user.id
             IN  /\ (rows # {} /\ (user.is_admin \/ owner))
                      => /\ db' = db \ rows
                         /\ resp'.status = 204
                         /\ resp'.manager_call = "delete_file"
                         /\ last'.op = "delete_file"
                         /\ \A r \in rows : last'.args = <<r.google_drive_id>>
                 /\ (~user.is_admin /\ ~owner)
                      => /\ db' = db
                         /\ resp'.manager_call = None
                         /\ mgr' = mgr /\ last' = last]_vars

\* A paper was deleted by its owner although the storage delete raised.
C30_Witness ==
    /\ resp.route = "documents.delete_paper" /\ resp.status = 204
    /\ resp.user = [id |-> "u1", is_admin |-> FALSE] /\ resp.record = 1
    /\ last.op = "delete_file" /\ last.outcome = "raised" /\ last.calls # <<>>
    /\ \A r \in db : r.table # "papers"

====
